---- MODULE Spec2Model ----
(***************************************************************************)
(* A model of the AgentCore demo backend (FastAPI + boto3):                *)
(*   - AgentCoreMemoryAPI.call_llm_stream, the one retry loop              *)
(*   - ConnectionManager, the WebSocket session fan-out                    *)
(*   - the runtime router's step7_invoke_agent and its request validation  *)
(*   - the code-interpreter session table and its reset                    *)
(*   - the login session table and the HTML page routes                    *)
(*   - the SSE generators of the runtime router and of the memory API      *)
(*   - the error handling of the JSON handlers                             *)
(*   - the log buffers: WebSocketLogHandler and StdoutCaptureHandler       *)
(*   - scripts/check_runtime_prerequisites.py                              *)
(*   - scripts/diagnose_container_invoke.py                                *)
(* Each component has its own variables and its own next-state relation;   *)
(* the components share no state in the program either.                    *)
(***************************************************************************)
EXTENDS Integers, Sequences, FiniteSets, TLC

VARIABLES
    llm_pc,          \* call_llm_stream: "idle" | "attempt" | "done"
    llm_attempt,     \* call_llm_stream: the loop variable `attempt`
    llm_retry_delay, \* call_llm_stream: the local `retry_delay`
    llm_trace,       \* what one invocation did so far, in order
    llm_calls,       \* invocations started so far
    active_connections,      \* ConnectionManager.active_connections (a list)
    session_connections,     \* ConnectionManager.session_connections: session -> set of sockets
    connection_sessions,     \* ConnectionManager.connection_sessions: socket -> session
    message_queue,           \* ConnectionManager.message_queue (a list)
    session_message_queues,  \* ConnectionManager.session_message_queues: session -> list
    ws_accepted,     \* sockets that were accepted by connect (a socket object connects once)
    ws_closed,       \* sockets closed by the peer: a send to them raises
    ws_hist,         \* per session, every message that was ever buffered, in order
    ws_next,         \* the number of the next message
    ws_sends,        \* messages sent since the initial state
    ws_last,         \* the last connect or send of the ConnectionManager and what it did
    inv_req,         \* step7_invoke_agent: the last request body
    inv_calls,       \* step7_invoke_agent: the invoke_agent_runtime calls it made
    inv_resp,        \* step7_invoke_agent: the HTTP response
    agentcore_sessions,  \* code interpreter: the keys of the module's agentcore_sessions dict
    ci_started,      \* code interpreter: sessions the service started
    ci_stopped,      \* code interpreter: sessions whose stop call succeeded
    ci_last,         \* code interpreter: the last handler and its result
    auth_pc,         \* login: "import" while app.py is being imported, then "serving"
    auth_env,        \* login: LOGIN_ENABLE, LOGIN_USERNAME, LOGIN_PASSWORD of the environment
    sessions,        \* login: app.py's `sessions` dict, token -> user
    auth_issued,     \* login: tokens set as cookie after a login with the configured credentials
    auth_last,       \* login: the last request and its response
    memory_api,      \* the AgentCoreMemoryAPI object: which of its fields are set
    runtime_sessions,\* runtime router: session id -> deployment type of the stored runtime
    s3_client,       \* runtime router: TRUE once init_clients has created the boto3 clients
    sse_last,        \* the last SSE stream: its generator and the events it emitted
    err_last,        \* the last JSON handler: the calls that raised and its response
    ws_handler_buffer,   \* WebSocketLogHandler.buffer (a list)
    capture_buffers,     \* StdoutCaptureHandler.buffer of stdout_capture and of stderr_capture
    log_count,       \* log records and writes so far
    log_pending,     \* send_json coroutines WebSocketLogger handed to the event loop
    chk_pc,          \* prerequisite checker: "start" | "done"
    chk_results,     \* prerequisite checker: the checks that returned, in order, with their result
    chk_printed,     \* prerequisite checker: what print_status and main printed, in order
    chk_end,         \* prerequisite checker: how main ended
    diag_pc,         \* diagnosis: "start" | "done"
    diag_trace,      \* diagnosis: the SDK calls and the steps of diagnose_runtime, in order
    diag_end,        \* diagnosis: how diagnose_runtime ended and the exit code of the process
    send_pc,         \* send_to_session in steps: "idle" | "suspended" (inside an await)
    send_call,       \* send_to_session in steps: the call in flight, its set iterator included
    send_last,       \* send_to_session in steps: how the last call ended
    loop_current,    \* event loop: the coroutine that runs now, "none" between coroutines
    loop_exec,       \* event loop: the code-interpreter handler in flight and its position
    loop_reset,      \* event loop: the reset in flight, its dict iterator included
    loop_last        \* event loop: how the last reset ended

llmVars == <<llm_pc, llm_attempt, llm_retry_delay, llm_trace, llm_calls>>

wsVars == <<active_connections, session_connections, connection_sessions,
            message_queue, session_message_queues, ws_accepted, ws_closed,
            ws_hist, ws_next, ws_sends, ws_last>>

invVars == <<inv_req, inv_calls, inv_resp>>

ciVars == <<agentcore_sessions, ci_started, ci_stopped, ci_last>>

authVars == <<auth_pc, auth_env, sessions, auth_issued, auth_last>>

sseVars == <<memory_api, runtime_sessions, s3_client, sse_last>>

errVars == <<err_last>>

logVars == <<ws_handler_buffer, capture_buffers, log_count, log_pending>>

chkVars == <<chk_pc, chk_results, chk_printed, chk_end>>

\* the components that came after the first seven
diagVars == <<diag_pc, diag_trace, diag_end>>

sendVars == <<send_pc, send_call, send_last>>

loopVars == <<loop_current, loop_exec, loop_reset, loop_last>>

restVars == <<logVars, chkVars, diagVars, sendVars, loopVars>>

\* the state of the other components, which a handler of one component leaves alone
otherThanLlm == <<restVars, wsVars, invVars, ciVars, authVars, sseVars, errVars>>
otherThanWs == <<restVars, llmVars, invVars, ciVars, authVars, sseVars, errVars>>
otherThanInv == <<restVars, llmVars, wsVars, ciVars, authVars, sseVars, errVars>>
otherThanCi == <<restVars, llmVars, wsVars, invVars, authVars, sseVars, errVars>>
otherThanAuth == <<restVars, llmVars, wsVars, invVars, ciVars, sseVars, errVars>>
otherThanSse == <<restVars, llmVars, wsVars, invVars, ciVars, authVars, errVars>>
otherThanErr == <<restVars, llmVars, wsVars, invVars, ciVars, authVars>>
otherThanLog == <<llmVars, invVars, ciVars, authVars, sseVars, errVars, chkVars, diagVars, sendVars, loopVars>>
otherThanChk == <<llmVars, wsVars, invVars, ciVars, authVars, sseVars, errVars, logVars, diagVars, sendVars, loopVars>>
otherThanDiag == <<llmVars, wsVars, invVars, ciVars, authVars, sseVars, errVars, logVars, chkVars, sendVars, loopVars>>
\* the steps of send_to_session change the manager too
otherThanSend == <<llmVars, invVars, ciVars, authVars, sseVars, errVars, logVars, chkVars, diagVars, loopVars>>
\* the steps of the code-interpreter handlers change agentcore_sessions too
otherThanLoop == <<llmVars, wsVars, invVars, authVars, sseVars, errVars, logVars, chkVars, diagVars,
                   sendVars, ci_last>>

(***************************************************************************)
(* Texts.  A text is a sequence of tokens; an f-string is a concatenation, *)
(* `x in text` is a search for a token.                                    *)
(***************************************************************************)
Contains(text, tok) == \E i \in 1..Len(text) : text[i] = tok

\* text carries msg: msg occurs in text as a contiguous part.
Carries(text, msg) ==
    \E i \in 0..(Len(text) - Len(msg)) :
        \A j \in 1..Len(msg) : text[i + j] = msg[j]

\* str(e) of the exceptions boto3 raises.  An error raised by the call itself
\* is a ClientError whose code is capitalised; an error delivered inside the
\* event stream is an EventStreamError whose code is the lower-case member name.
ErrThrottlingCall == <<"An error occurred", "ThrottlingException", "Too many requests">>
ErrThrottlingStream == <<"An error occurred", "throttlingException", "Too many requests">>
ErrUnavailableCall == <<"An error occurred", "ServiceUnavailableException", "unable to process">>
ErrUnavailableStream == <<"An error occurred", "serviceUnavailableException", "unable to process">>
ErrValidation == <<"An error occurred", "ValidationException", "malformed input">>
ErrAccessDenied == <<"An error occurred", "AccessDeniedException", "not authorized">>

\* str(e) of the exception an SDK call raised: it names the call
SdkError(call) == <<"An error occurred", call>>

LlmErrors == {ErrThrottlingCall, ErrThrottlingStream, ErrUnavailableCall,
              ErrUnavailableStream, ErrValidation, ErrAccessDenied}

(***************************************************************************)
(* AgentCoreMemoryAPI.call_llm_stream                                      *)
(***************************************************************************)
max_retries == 3
InitialRetryDelay == 2

\* Bounds of the model.
MaxChunks == 1       \* text chunks one attempt yields before it ends or raises
MaxLlmCalls == 2     \* invocations of call_llm_stream

\* `attempt < max_retries - 1 and ('serviceUnavailableException' in error_msg
\*  or 'ThrottlingException' in error_msg)`
RetryAlways(attempt, error_msg) == attempt < max_retries - 1

ShouldRetry(attempt, error_msg) ==
    /\ attempt < max_retries - 1
    /\ \/ Contains(error_msg, "serviceUnavailableException")
       \/ Contains(error_msg, "ThrottlingException")

\* `retry_delay *= 2`
KeepDelay(d) == d

NextRetryDelay(d) == d * 2

\* `for attempt in range(max_retries)`: is there a next iteration?
RangeHasNext(attempt) == attempt + 1 < max_retries

TextChunks(n) == [i \in 1..n |-> [k |-> "text", v |-> <<>>]]

LlmInit ==
    /\ llm_pc = "idle"
    /\ llm_attempt = 0
    /\ llm_retry_delay = InitialRetryDelay
    /\ llm_trace = <<>>
    /\ llm_calls = 0

\* The generator is started: the locals are set and the loop is entered.
LlmStart ==
    /\ llm_pc \in {"idle", "done"}
    /\ llm_calls < MaxLlmCalls
    /\ llm_pc' = "attempt"
    /\ llm_attempt' = 0
    /\ llm_retry_delay' = InitialRetryDelay
    /\ llm_trace' = <<>>
    /\ llm_calls' = llm_calls + 1
    /\ UNCHANGED otherThanLlm

\* One iteration whose converse_stream call and stream both succeed:
\* the chunks are yielded and the generator returns.
LlmAttemptOk ==
    /\ llm_pc = "attempt"
    /\ \E n \in 0..MaxChunks :
         llm_trace' = llm_trace \o <<[k |-> "attempt", v |-> <<>>]>> \o TextChunks(n)
    /\ llm_pc' = "done"
    /\ UNCHANGED <<llm_attempt, llm_retry_delay, llm_calls>>
    /\ UNCHANGED otherThanLlm

\* One iteration that raises, in the call or while the stream is read (after
\* n chunks were yielded): the except clause.
LlmAttemptRaises ==
    /\ llm_pc = "attempt"
    /\ \E n \in 0..MaxChunks, e \in LlmErrors :
         LET tried == llm_trace \o <<[k |-> "attempt", v |-> e]>> \o TextChunks(n) IN
         IF ShouldRetry(llm_attempt, e)
         THEN /\ llm_trace' = tried \o <<[k |-> "warn", v |-> e],
                                        [k |-> "sleep", v |-> llm_retry_delay]>>
              /\ llm_retry_delay' = NextRetryDelay(llm_retry_delay)
              /\ IF RangeHasNext(llm_attempt)
                 THEN llm_attempt' = llm_attempt + 1 /\ llm_pc' = "attempt"
                 ELSE llm_attempt' = llm_attempt /\ llm_pc' = "done"
         ELSE /\ llm_trace' = tried \o <<[k |-> "fail", v |-> e]>>
              /\ llm_pc' = "done"
              /\ UNCHANGED <<llm_attempt, llm_retry_delay>>
    /\ UNCHANGED llm_calls
    /\ UNCHANGED otherThanLlm

LlmNext == LlmStart \/ LlmAttemptOk \/ LlmAttemptRaises

(***************************************************************************)
(* ConnectionManager                                                       *)
(***************************************************************************)
Sockets == {"w1", "w2"}
Sessions == {"s1", "s2"}
NoSession == "None"

QueueCap == 1000

\* Bounds of the model.
MaxMessages == 2     \* messages sent after the initial state

\* `queue[-1000:]`
KeepOldest(q) == IF Len(q) > QueueCap THEN SubSeq(q, 1, QueueCap) ELSE q

LastCap(q) == IF Len(q) > QueueCap THEN SubSeq(q, Len(q) - QueueCap + 1, Len(q)) ELSE q

\* a dict without key k
Without(f, k) == [x \in DOMAIN f \ {k} |-> f[x]]

\* a dict with f[k] = v
With(f, k, v) == [x \in DOMAIN f \cup {k} |-> IF x = k THEN v ELSE f[x]]

\* `list.remove(x)` guarded by `x in list`
ListRemove(l, x) ==
    IF \E i \in 1..Len(l) : l[i] = x
    THEN LET i == CHOOSE i \in 1..Len(l) : l[i] = x /\ \A j \in 1..(i - 1) : l[j] # x
         IN SubSeq(l, 1, i - 1) \o SubSeq(l, i + 1, Len(l))
    ELSE l

\* ConnectionManager.associate_session, on the two maps.
Associate(m, w, sid) ==
    [sc |-> With(m.sc, sid, (IF sid \in DOMAIN m.sc THEN m.sc[sid] ELSE {}) \cup {w}),
     cs |-> With(m.cs, w, sid),
     ac |-> m.ac]

\* ConnectionManager.disconnect, on the list and the two maps.
Disconnect(m, w) ==
    [ac |-> ListRemove(m.ac, w),
     sc |-> IF w \in DOMAIN m.cs /\ m.cs[w] \in DOMAIN m.sc
            THEN LET sid == m.cs[w]
                     rest == m.sc[sid] \ {w}
                 IN IF rest = {} THEN Without(m.sc, sid) ELSE With(m.sc, sid, rest)
            ELSE m.sc,
     cs |-> Without(m.cs, w)]

\* `for connection in connections_to_remove: self.disconnect(connection)`
RECURSIVE DisconnectAll(_, _)
DisconnectAll(m, ws) ==
    IF ws = {} THEN m
    ELSE LET w == CHOOSE x \in ws : TRUE
         IN DisconnectAll(Disconnect(m, w), ws \ {w})

Maps == [ac |-> active_connections, sc |-> session_connections, cs |-> connection_sessions]

SetMaps(m) ==
    /\ active_connections' = m.ac
    /\ session_connections' = m.sc
    /\ connection_sessions' = m.cs

\* ConnectionManager.get_session_id
get_session_id(w) == IF w \in DOMAIN connection_sessions THEN connection_sessions[w] ELSE NoSession

EmptyMap == [x \in {} |-> {}]

Numbered(n) == [i \in 1..n |-> i]

\* The manager after n calls of send_to_session("s1", ...) with no socket connected
WsAfterSends(n) ==
    /\ active_connections = <<>>
    /\ session_connections = EmptyMap
    /\ connection_sessions = EmptyMap
    /\ message_queue = <<>>
    /\ session_message_queues = IF n = 0 THEN EmptyMap ELSE [x \in {"s1"} |-> Numbered(n)]
    /\ ws_hist = [x \in Sessions |-> IF x = "s1" THEN Numbered(n) ELSE <<>>]
    /\ ws_next = n + 1
    /\ ws_accepted = {}
    /\ ws_closed = {}
    /\ ws_sends = 0
    /\ ws_last = [op |-> "none"]

\* ConnectionManager.__init__
WsInit == WsAfterSends(0)

\* the manager as constructed, or one message short of a full buffer for s1
WsInitNearCap == \E n \in {0, QueueCap - 1} : WsAfterSends(n)

\* ConnectionManager.connect(websocket, session_id)
WsConnect(w, sid) ==
    /\ w \notin ws_accepted
    /\ ws_accepted' = ws_accepted \cup {w}
    /\ LET m == [Maps EXCEPT !.ac = Append(active_connections, w)]
       IN SetMaps(IF sid # NoSession THEN Associate(m, w, sid) ELSE m)
    /\ ws_last' = [op |-> "connect", w |-> w, s |-> sid, buffered |-> ws_handler_buffer]
    /\ UNCHANGED <<message_queue, session_message_queues, ws_closed, ws_hist, ws_next, ws_sends>>
    /\ UNCHANGED otherThanWs

\* an associate_session that hands the session's buffer to the new socket
WsAssociateFlushing(w, sid) ==
    /\ \E i \in 1..Len(active_connections) : active_connections[i] = w
    /\ SetMaps(Associate(Maps, w, sid))
    /\ session_message_queues' = Without(session_message_queues, sid)
    /\ UNCHANGED <<ws_last, message_queue, ws_accepted, ws_closed, ws_hist, ws_next, ws_sends>>
    /\ UNCHANGED otherThanWs

\* ConnectionManager.associate_session(websocket, session_id), on a connected socket
WsAssociate(w, sid) ==
    /\ \E i \in 1..Len(active_connections) : active_connections[i] = w
    /\ SetMaps(Associate(Maps, w, sid))
    /\ UNCHANGED <<ws_last, message_queue, session_message_queues, ws_accepted, ws_closed,
                   ws_hist, ws_next, ws_sends>>
    /\ UNCHANGED otherThanWs

\* ConnectionManager.disconnect(websocket)
WsDisconnect(w) ==
    /\ w \in ws_accepted
    /\ SetMaps(Disconnect(Maps, w))
    /\ ws_closed' = ws_closed \cup {w}
    /\ UNCHANGED <<ws_last, message_queue, session_message_queues, ws_accepted, ws_hist, ws_next, ws_sends>>
    /\ UNCHANGED otherThanWs

\* The peer goes away; the server has not noticed yet.
WsPeerCloses(w) ==
    /\ w \in ws_accepted \ ws_closed
    /\ ws_closed' = ws_closed \cup {w}
    /\ UNCHANGED <<ws_last, active_connections, session_connections, connection_sessions,
                   message_queue, session_message_queues, ws_accepted, ws_hist, ws_next, ws_sends>>
    /\ UNCHANGED otherThanWs

\* ConnectionManager.send_to_session(session_id, data), data being message ws_next
WsSendToSession(sid) ==
    /\ ws_sends < MaxMessages
    /\ ws_sends' = ws_sends + 1
    /\ ws_next' = ws_next + 1
    /\ IF sid \notin DOMAIN session_connections
       THEN \* no entry for the session: the message is queued
            LET q == IF sid \in DOMAIN session_message_queues
                     THEN session_message_queues[sid] ELSE <<>>
            IN /\ session_message_queues' =
                      With(session_message_queues, sid, LastCap(Append(q, ws_next)))
               /\ ws_hist' = [ws_hist EXCEPT ![sid] = Append(@, ws_next)]
               /\ ws_last' = [op |-> "send_to_session", s |-> sid, m |-> ws_next,
                              members |-> {}, sent |-> {}, queued |-> TRUE]
               /\ UNCHANGED <<active_connections, session_connections,
                              connection_sessions>>
       ELSE \* send to every connection of the set; drop the ones whose send raised
            LET members == session_connections[sid]
                failed == members \cap ws_closed
                reached == members \ ws_closed
            IN /\ SetMaps(DisconnectAll(Maps, failed))
               /\ ws_last' = [op |-> "send_to_session", s |-> sid, m |-> ws_next,
                              members |-> members,
                              sent |-> {[to |-> w, cur |-> get_session_id(w)] : w \in reached},
                              queued |-> FALSE]
               /\ UNCHANGED <<session_message_queues, ws_hist>>
    /\ UNCHANGED <<message_queue, ws_accepted, ws_closed>>
    /\ UNCHANGED otherThanWs

\* the data of the n-th send_json call
JsonData(n) == [k |-> "data", n |-> n]

\* ConnectionManager.send_json(data): queued when no connection is active,
\* else sent to every active connection; a send that raises is printed
SendJson(data) ==
    /\ IF active_connections = <<>>
       THEN /\ message_queue' = LastCap(Append(message_queue, data))
            /\ ws_last' = [op |-> "send_json", data |-> data, to |-> {}, queued |-> TRUE]
       ELSE /\ ws_last' = [op |-> "send_json", data |-> data,
                           to |-> {active_connections[i] : i \in 1..Len(active_connections)}
                                  \ ws_closed,
                           queued |-> FALSE]
            /\ UNCHANGED message_queue
    /\ UNCHANGED <<active_connections, session_connections, connection_sessions,
                   session_message_queues, ws_accepted, ws_closed, ws_hist>>

\* a send_json call of the application, data being message ws_next
send_json(data) ==
    /\ ws_sends < MaxMessages
    /\ ws_sends' = ws_sends + 1
    /\ ws_next' = ws_next + 1
    /\ SendJson(data)
    /\ UNCHANGED otherThanWs

WsNext ==
    \/ \E w \in Sockets, sid \in Sessions \cup {NoSession} : WsConnect(w, sid)
    \/ \E w \in Sockets, sid \in Sessions : WsAssociate(w, sid)
    \/ \E w \in Sockets : WsDisconnect(w)
    \/ \E w \in Sockets : WsPeerCloses(w)
    \/ \E sid \in Sessions : WsSendToSession(sid)

(***************************************************************************)
(* The runtime router: Step7InvokeRequest and step7_invoke_agent           *)
(***************************************************************************)
\* A string is a sequence of runs [c, n]: n copies of character c.
RECURSIVE TextLen(_)
TextLen(t) == IF t = <<>> THEN 0 ELSE t[1].n + TextLen(SubSeq(t, 2, Len(t)))

IsSpace(c) == c \in {"SP", "LF"}

\* `v.strip()`
RECURSIVE LStrip(_)
LStrip(t) == IF t # <<>> /\ IsSpace(t[1].c) THEN LStrip(SubSeq(t, 2, Len(t))) ELSE t

RECURSIVE RStrip(_)
RStrip(t) == IF t # <<>> /\ IsSpace(t[Len(t)].c) THEN RStrip(SubSeq(t, 1, Len(t) - 1)) ELSE t

Strip(t) == RStrip(LStrip(t))

MaxPromptLen == 10000
MinSessionIdLen == 33

\* A field of a JSON body: left out, null, or a value.
Absent == [k |-> "absent"]
None == [k |-> "null"]
Val(v) == [k |-> "value", v |-> v]

\* @validator('prompt'): TRUE when the value is refused
PromptRefusedNoBlankTest(v) == TextLen(v) > MaxPromptLen

PromptRefused(v) == TextLen(v) > MaxPromptLen \/ Strip(v) = <<>>

\* @validator('runtime_session_id')
SessionIdRefused(v) == TextLen(v) < MinSessionIdLen

\* @validator('deployment_type'); it also runs on an explicit null
DeploymentTypeRefused(f) == f.k = "null" \/ f.v \notin {"code", "container"}

\* pydantic's construction of Step7InvokeRequest from the body: a required
\* field must be present; a field left out takes its default unvalidated.
Step7Parse(body) ==
    IF body.runtime_arn.k # "value" \/ body.prompt.k # "value"
       \/ body.runtime_session_id.k # "value" THEN [ok |-> FALSE]
    ELSE IF PromptRefused(body.prompt.v) THEN [ok |-> FALSE]
    ELSE IF SessionIdRefused(body.runtime_session_id.v) THEN [ok |-> FALSE]
    ELSE IF body.deployment_type # Absent /\ DeploymentTypeRefused(body.deployment_type)
         THEN [ok |-> FALSE]
    ELSE [ok |-> TRUE,
          request |-> [prompt |-> body.prompt.v,
                       runtime_session_id |-> body.runtime_session_id.v,
                       deployment_type |-> IF body.deployment_type = Absent THEN "code"
                                           ELSE body.deployment_type.v]]

\* json.dumps of a string: character by character (ensure_ascii is on)
JsonEscapeChar(c) ==
    CASE c = "QUOTE" -> "ESC_QUOTE"
      [] c = "BACKSLASH" -> "ESC_BACKSLASH"
      [] c = "LF" -> "ESC_n"
      [] c = "E_ACUTE" -> "ESC_u00e9"
      [] OTHER -> c

JsonString(t) ==
    [t |-> "string", str |-> [i \in 1..Len(t) |-> [c |-> JsonEscapeChar(t[i].c), n |-> t[i].n]]]

\* a punctuation or key token of a JSON text
Tok(s) == [t |-> s]

\* json.dumps of {"prompt": p} and of {"input": {"prompt": p}}, as tokens
DumpsFlat(p) == <<Tok("{"), Tok("\"prompt\""), Tok(":"), JsonString(p), Tok("}")>>

DumpsNested(p) ==
    <<Tok("{"), Tok("\"input\""), Tok(":"), Tok("{"), Tok("\"prompt\""), Tok(":"),
      JsonString(p), Tok("}"), Tok("}")>>

\* the payload step7_invoke_agent builds
Step7PayloadAlwaysFlat(request) == DumpsFlat(request.prompt)

Step7Payload(request) ==
    IF request.deployment_type = "container"
    THEN DumpsNested(request.prompt)
    ELSE DumpsFlat(request.prompt)

SdkErrors == {ErrAccessDenied}

\* what invoke_agent_runtime does: a JSON body, a body that is no JSON, or an exception
ErrNotJson == <<"Expecting value">>
InvokeOutcomes == {[k |-> "json"], [k |-> "not_json"]} \cup {[k |-> "raises", e |-> e] : e \in SdkErrors}

\* the result of the handler's try block, after the call was made
Step7Response(request, outcome) ==
    IF outcome.k = "json"
    THEN [status |-> 200, body |-> [status |-> "success", prompt |-> request.prompt,
                                    deployment_type |-> request.deployment_type]]
    ELSE [status |-> 500,
          detail |-> <<"invoke failed: ">> \o (IF outcome.k = "not_json" THEN ErrNotJson ELSE outcome.e)]

Run(c, n) == [c |-> c, n |-> n]

Prompts ==
    {<<>>, <<Run("LF", 2), Run("SP", 1)>>,
     <<Run("a", MaxPromptLen)>>, <<Run("a", MaxPromptLen + 1)>>,
     <<Run("SP", 1), Run("a", MaxPromptLen - 1)>>, <<Run("a", MaxPromptLen - 1), Run("SP", 2)>>,
     <<Run("QUOTE", 1), Run("BACKSLASH", 1), Run("E_ACUTE", 1), Run("LF", 1), Run("a", 1)>>}

SessionIds ==
    {<<Run("x", MinSessionIdLen - 1)>>, <<Run("x", MinSessionIdLen)>>,
     <<Run("x", MinSessionIdLen + 1)>>}

DeploymentTypes == {"code", "container", "lambda"}

Bodies ==
    [runtime_arn : {Val("arn"), Absent},
     prompt : {Val(p) : p \in Prompts} \cup {Absent},
     runtime_session_id : {Val(x) : x \in SessionIds} \cup {Absent},
     deployment_type : {Val(d) : d \in DeploymentTypes} \cup {Absent, None}]

InvInit ==
    /\ inv_req = [k |-> "none"]
    /\ inv_calls = <<>>
    /\ inv_resp = [status |-> 0]

\* POST /api/runtime/demo/step7-invoke with a body and what the service answers
Step7Invoke(body, outcome) ==
    LET parsed == Step7Parse(body) IN
    /\ inv_req' = body
    /\ IF ~parsed.ok
       THEN /\ inv_calls' = <<>>
            /\ inv_resp' = [status |-> 422]
       ELSE /\ inv_calls' = <<[payload |-> Step7Payload(parsed.request),
                               runtimeSessionId |-> parsed.request.runtime_session_id,
                               qualifier |-> "DEFAULT"]>>
            /\ inv_resp' = Step7Response(parsed.request, outcome)
    /\ UNCHANGED otherThanInv

InvNext == \E body \in Bodies, outcome \in InvokeOutcomes : Step7Invoke(body, outcome)


(***************************************************************************)
(* The code interpreter (agentcore_code_interpreter.py).  The handlers are *)
(* coroutines without an await: each runs to its end without interleaving. *)
(***************************************************************************)
MaxCiSessions == 3

\* sessionId values start_code_interpreter_session hands out
CiSessionIds == 1..MaxCiSessions

\* what the SDK calls of a handler do: start raises, a later call raises, none raises
CiOutcomes == {"start_raises", "later_raises", "ok"}

CiInit ==
    /\ agentcore_sessions = {}
    /\ ci_started = {}
    /\ ci_stopped = {}
    /\ ci_last = [op |-> "none", success |-> TRUE, raised |-> {},
                  resp |-> [status |-> 0, success |-> TRUE, text |-> <<>>]]

\* start_session: the service starts a session it never started before
CiFresh == CiSessionIds \ ci_started

\* the session is stored right after start_session
StoredAfterStart(outcome) == outcome # "start_raises"

\* execute_agentcore_code stores the session after execute_code returned
StoredAfterExecute(outcome) == outcome = "ok"

\* the SDK call behind an outcome
CiRaisingCall(outcome) ==
    IF outcome = "start_raises" THEN "start_code_interpreter_session" ELSE "invoke_code_interpreter"

\* the endpoint's answer: the result, or HTTP 500 with {success: false, error: str(e)}
CiResponse(outcome) ==
    IF outcome = "ok" THEN [status |-> 200, success |-> TRUE, text |-> <<"output">>]
    ELSE [status |-> 500, success |-> FALSE, text |-> SdkError(CiRaisingCall(outcome))]

\* what a handler that starts a session leaves as its answer
CiAnswer(op, outcome) ==
    [op |-> op, success |-> (outcome = "ok"),
     raised |-> IF outcome = "ok" THEN {} ELSE {CiRaisingCall(outcome)},
     resp |-> CiResponse(outcome)]

\* the reset's answer: stop_session's False is not looked at
ResetAnswer(failing) ==
    [op |-> "reset_agentcore_sessions", success |-> TRUE,
     raised |-> IF failing = {} THEN {} ELSE {"stop_code_interpreter_session"},
     resp |-> [status |-> 200, success |-> TRUE, text |-> <<"Reset completed">>]]

\* a handler that starts a session; `stored` tells for which outcomes the
\* session reaches agentcore_sessions
CiRun(op, outcome, stored) ==
    /\ IF outcome = "start_raises"
       THEN UNCHANGED <<agentcore_sessions, ci_started>>
       ELSE \E session_id \in CiFresh :
              /\ ci_started' = ci_started \cup {session_id}
              /\ agentcore_sessions' = IF stored THEN agentcore_sessions \cup {session_id}
                                       ELSE agentcore_sessions
    /\ ci_last' = CiAnswer(op, outcome)
    /\ UNCHANGED ci_stopped
    /\ UNCHANGED otherThanCi

execute_agentcore_code(outcome) ==
    CiRun("execute_agentcore_code", outcome, StoredAfterExecute(outcome))

execute_file_management_demo(outcome) ==
    CiRun("execute_file_management_demo", outcome, StoredAfterStart(outcome))

execute_shell_command_demo(outcome) ==
    CiRun("execute_shell_command_demo", outcome, StoredAfterStart(outcome))

\* stop_session returns False when stop_code_interpreter_session raises;
\* `failing` are the sessions for which it does
reset_agentcore_sessions(failing) ==
    /\ ci_stopped' = ci_stopped \cup (agentcore_sessions \ failing)
    /\ agentcore_sessions' = {}
    /\ ci_last' = ResetAnswer(failing)
    /\ UNCHANGED ci_started
    /\ UNCHANGED otherThanCi

CiNext ==
    \/ \E outcome \in CiOutcomes : execute_agentcore_code(outcome)
    \/ \E outcome \in CiOutcomes : execute_file_management_demo(outcome)
    \/ \E outcome \in CiOutcomes : execute_shell_command_demo(outcome)
    \/ \E failing \in SUBSET agentcore_sessions : reset_agentcore_sessions(failing)

(***************************************************************************)
(* Login and the HTML page routes (app.py).                                *)
(***************************************************************************)
\* an environment variable that is not set: os.getenv gives None, equal to no string
Unset == "<unset>"

\* a request without the session_token cookie: Cookie(None)
NoCookie == "<no cookie>"

NoUser == [none |-> TRUE]

\* secrets.token_hex(16)
Tokens == {"t1", "t2"}

\* what a client may present as cookie: nothing, an empty value, any token value
Cookies == Tokens \cup {NoCookie, ""}

Usernames == {"admin", "guest"}
Passwords == {"secret", "wrong"}

PageRoutes ==
    {"/", "/browser-use-agentcore", "/code-interpreter-agentcore", "/agentcore-runtime",
     "/agentcore-memory", "/agentcore-gateway"}

\* os.getenv("LOGIN_ENABLE", "true").lower() == "true"
Lower(v) == IF v \in {"True", "TRUE"} THEN "true" ELSE v

login_enabled == Lower(IF auth_env.LOGIN_ENABLE = Unset THEN "true" ELSE auth_env.LOGIN_ENABLE) = "true"

\* `if session_token`: None and the empty string are falsy
Truthy(session_token) == session_token \notin {NoCookie, ""}

get_current_user(session_token) ==
    IF ~login_enabled THEN [username |-> "default_user"]
    ELSE IF Truthy(session_token) /\ session_token \in DOMAIN sessions THEN sessions[session_token]
    ELSE NoUser

\* post_login's test of the credentials
EitherMatches(username, password) ==
    username = auth_env.LOGIN_USERNAME \/ password = auth_env.LOGIN_PASSWORD

CredentialsMatch(username, password) ==
    username = auth_env.LOGIN_USERNAME /\ password = auth_env.LOGIN_PASSWORD

Environments ==
    [LOGIN_ENABLE : {Unset, "true", "True", "false"},
     LOGIN_USERNAME : {Unset, "admin"},
     LOGIN_PASSWORD : {Unset, "secret"}]

AuthInit ==
    /\ auth_pc = "import"
    /\ auth_env = [LOGIN_ENABLE |-> Unset, LOGIN_USERNAME |-> Unset, LOGIN_PASSWORD |-> Unset]
    /\ sessions = << >>
    /\ auth_issued = {}
    /\ auth_last = [op |-> "none"]

Redirect(url) == [status |-> 303, location |-> url, page |-> "none"]

Template(name) == [status |-> 200, location |-> "none", page |-> name]

\* load_dotenv() at import: the environment the handlers will read
load_dotenv(env) ==
    /\ auth_pc = "import"
    /\ auth_pc' = "serving"
    /\ auth_env' = env
    /\ UNCHANGED <<sessions, auth_issued, auth_last>>
    /\ UNCHANGED otherThanAuth

post_login(username, password, token) ==
    /\ auth_pc = "serving"
    /\ IF ~login_enabled
       THEN /\ auth_last' = [op |-> "post_login", resp |-> Redirect("/"), set_cookie |-> NoCookie]
            /\ UNCHANGED <<sessions, auth_issued>>
       ELSE IF CredentialsMatch(username, password)
       THEN /\ sessions' = [t \in DOMAIN sessions \cup {token} |->
                               IF t = token THEN [username |-> username] ELSE sessions[t]]
            /\ auth_issued' = IF username = auth_env.LOGIN_USERNAME /\ password = auth_env.LOGIN_PASSWORD
                              THEN auth_issued \cup {token} ELSE auth_issued
            /\ auth_last' = [op |-> "post_login", resp |-> Redirect("/"), set_cookie |-> token]
       ELSE /\ auth_last' = [op |-> "post_login", resp |-> Template("login.html"),
                             set_cookie |-> NoCookie]
            /\ UNCHANGED <<sessions, auth_issued>>
    /\ UNCHANGED <<auth_pc, auth_env>>
    /\ UNCHANGED otherThanAuth

get_login ==
    /\ auth_pc = "serving"
    /\ auth_last' = [op |-> "get_login",
                     resp |-> IF ~login_enabled THEN Redirect("/") ELSE Template("login.html")]
    /\ UNCHANGED <<auth_pc, auth_env, sessions, auth_issued>>
    /\ UNCHANGED otherThanAuth

\* logout deletes the cookie at the client; the entry of `sessions` stays
logout ==
    /\ auth_pc = "serving"
    /\ auth_last' = [op |-> "logout", resp |-> Redirect("/login")]
    /\ UNCHANGED <<auth_pc, auth_env, sessions, auth_issued>>
    /\ UNCHANGED otherThanAuth

\* get_index and the five other page routes: the same two lines each
get_page(route, session_token) ==
    LET user == get_current_user(session_token) IN
    /\ auth_pc = "serving"
    /\ auth_last' = [op |-> "get_page", route |-> route, session_token |-> session_token,
                     issued |-> session_token \in auth_issued, user |-> user,
                     resp |-> IF user = NoUser THEN Redirect("/login") ELSE Template(route)]
    /\ UNCHANGED <<auth_pc, auth_env, sessions, auth_issued>>
    /\ UNCHANGED otherThanAuth

AuthNext ==
    \/ \E env \in Environments : load_dotenv(env)
    \/ \E username \in Usernames, password \in Passwords, token \in Tokens :
          post_login(username, password, token)
    \/ get_login
    \/ logout
    \/ \E route \in PageRoutes, session_token \in Cookies : get_page(route, session_token)

(***************************************************************************)
(* The SSE generators.  A generator body is a sequence of instructions:    *)
(* yield an event, make a call that may raise, consume call_llm_stream,    *)
(* return.  Exec runs a body up to its end, its return or the first call   *)
(* that raises.                                                            *)
(***************************************************************************)
\* an event of the runtime router: data: {"line": ..., "done": false} / {"done": true, ...}
Line == [op |-> "yield", ev |-> [event |-> "message", done |-> FALSE]]
Done == [op |-> "yield", ev |-> [event |-> "message", done |-> TRUE]]

\* _send_event(event_type, data) of the memory API; its data has no `done`
SendEvent(event_type) == [op |-> "yield", ev |-> [event |-> event_type, done |-> FALSE]]

Log == SendEvent("log")
Result == SendEvent("result")

Call(name) == [op |-> "call", name |-> name]

\* a call in a try of its own: events for each outcome, and the body goes on
TryCall(name, ok, failed) == [op |-> "try_call", name |-> name, ok |-> ok, failed |-> failed]

\* for chunk in self.call_llm_stream(...): yield a log event per chunk
ForLlmChunks == [op |-> "llm"]

Return == [op |-> "return"]

Times(n, instr) == [i \in 1..n |-> instr]

Events(body) == [i \in 1..Len(body) |-> body[i].ev]

\* what call_llm_stream yields: text chunks, and a failure message when the
\* last attempt raised; it never raises
LlmYields == {<<>>, <<"text">>, <<"text", "fail">>}

RECURSIVE Exec(_, _, _, _, _, _)
Exec(body, i, raising, chunks, out, calls) ==
    IF i > Len(body) THEN [events |-> out, raised |-> FALSE, calls |-> calls]
    ELSE LET in == body[i] IN
         CASE in.op = "yield" -> Exec(body, i + 1, raising, chunks, Append(out, in.ev), calls)
           [] in.op = "return" -> [events |-> out, raised |-> FALSE, calls |-> calls]
           [] in.op = "call" ->
                IF in.name \in raising THEN [events |-> out, raised |-> TRUE, calls |-> calls]
                ELSE Exec(body, i + 1, raising, chunks, out, calls \cup {in.name})
           [] in.op = "try_call" ->
                IF in.name \in raising
                THEN Exec(body, i + 1, raising, chunks, out \o Events(in.failed), calls)
                ELSE Exec(body, i + 1, raising, chunks, out \o Events(in.ok), calls \cup {in.name})
           [] in.op = "llm" ->
                Exec(body, i + 1, raising, chunks, out \o Events(Times(Len(chunks), Log)), calls)

\* try: body  (no except clause that yields)
TryOnly(body, handler, raising, chunks) == Exec(body, 1, raising, chunks, <<>>, {})

\* try: body / except Exception: handler
TryExcept(body, handler, raising, chunks) ==
    LET r == Exec(body, 1, raising, chunks, <<>>, {})
    IN IF r.raised THEN [r EXCEPT !.events = r.events \o Events(handler)] ELSE r

\* ---- the runtime router's generators ----
\* step2, step3 and the container steps 1 to 4: output_lines, then the completion event
MockLines ==
    [step2_init_project_stream |-> 10, step3_create_agent_stream |-> 8,
     container_step1_init_project_stream |-> 16, container_step2_create_agent_stream |-> 15,
     container_step3_create_dockerfile_stream |-> 14, container_step4_buildx_setup_stream |-> 18]

MockBody(name) == Times(MockLines[name], Line) \o <<Done>>

step5_create_package_body(package_exists) ==
    IF ~package_exists THEN <<Done, Return>> ELSE Times(12, Line) \o <<Done>>

container_step5_build_push_body(configured) ==
    IF ~configured THEN <<Done, Return>> ELSE Times(23, Line) \o <<Done>>

step5_deploy_body(package_exists) ==
    IF ~package_exists THEN <<Done, Return>>
    ELSE <<Line, Call("s3_client.upload_fileobj"), Line, Line,
           Call("create_agent_runtime"), Line, Done>>

container_step6_deploy_body ==
    <<Call("build_container_image_uri"), Line, Line, Call("create_agent_runtime"), Line, Done>>

\* except Exception as e: one event {"done": true, "error": ...}
DeployHandler == <<Done>>

RuntimeGenerators ==
    DOMAIN MockLines \cup {"step5_create_package_stream", "container_step5_build_push_stream",
                           "step5_deploy_runtime_stream", "container_step6_deploy_stream"}

RtSessionIds == {"a"}

\* ---- the memory API's generators ----
\* except Exception as e: three log events and the result event
MemoryHandler == <<Log, Log, Log, Result>>

NotInitialized == <<Log, Result, Return>>

initialize_stream_body(have_ids) ==
    Times(3, Log)
    \o (IF ~have_ids THEN NotInitialized
        ELSE Times(4, Log) \o <<Call("MemoryClient"), Log, Log, Call("boto3.client"), Log, Log, Log,
                                Call("stm MemorySessionManager"), Log, Log, Log,
                                Call("ltm MemorySessionManager"), Log, Log>>
             \o Times(4, Log) \o <<Result>>)

demo_stm_step1_stream_body(api) ==
    Times(2, Log)
    \o (IF ~api.stm_manager THEN NotInitialized
        ELSE Times(5, Log) \o <<ForLlmChunks>> \o Times(5, Log) \o <<Call("stm add_turns")>>
             \o Times(6, Log) \o <<Result>>)

\* context_lines[:6] are shown, and one more line when there are more
ShownLines(n) == (IF n > 6 THEN 6 ELSE n) + (IF n > 6 THEN 1 ELSE 0)

demo_stm_step2_stream_body(api, have_session, n) ==
    Times(2, Log)
    \o (IF ~api.stm_manager THEN NotInitialized
        ELSE IF ~have_session THEN NotInitialized
        ELSE Times(4, Log) \o <<Call("stm get_last_k_turns")>> \o Times(3, Log)
             \o Times(ShownLines(n), Log) \o Times(2, Log) \o <<ForLlmChunks>> \o Times(5, Log)
             \o <<Call("stm add_turns")>> \o Times(5, Log) \o <<Result>>)

demo_ltm_step1_stream_body(api) ==
    Times(2, Log)
    \o (IF ~api.ltm_manager THEN NotInitialized
        ELSE Times(5, Log) \o <<ForLlmChunks>> \o Times(5, Log) \o <<Call("ltm add_turns")>>
             \o Times(7, Log) \o <<Result>>)

\* memory_list[:3] are shown between a heading and an empty line, when there are memories
ShownMemories(n) == IF n = 0 THEN 0 ELSE 2 + (IF n > 3 THEN 3 ELSE n) + (IF n > 3 THEN 1 ELSE 0)

demo_ltm_step2_stream_body(api, have_actor, n) ==
    Times(2, Log)
    \o (IF ~api.ltm_manager THEN NotInitialized
        ELSE IF ~have_actor THEN NotInitialized
        ELSE Times(4, Log) \o <<Call("ltm search_long_term_memories")>> \o Times(2, Log)
             \o Times(ShownMemories(n), Log) \o <<Log, ForLlmChunks>> \o Times(5, Log)
             \o <<Call("ltm add_turns")>> \o Times(5, Log) \o <<Result>>)

demo_combined_stream_body(api) ==
    Times(2, Log)
    \o (IF ~api.stm_manager \/ ~api.ltm_manager THEN NotInitialized
        ELSE Times(4, Log) \o <<Call("ltm search_long_term_memories"), Log, Log,
                                TryCall("stm get_last_k_turns", <<Log>>, <<Log>>)>>
             \o Times(5, Log) \o <<ForLlmChunks>> \o Times(5, Log)
             \o <<Call("stm add_turns"), Call("ltm add_turns")>> \o Times(5, Log) \o <<Result>>)

create_stm_memory_stream_body(api, have_name) ==
    Times(3, Log)
    \o (IF ~api.memory_client THEN <<Log, Call("MemoryClient"), Log>> ELSE <<>>)
    \o (IF ~have_name THEN <<Log>> ELSE <<>>)
    \o <<SendEvent("code")>> \o Times(7, Log) \o <<Call("create_memory_and_wait")>>
    \o Times(10, Log) \o <<Result>>

\* one more log event per strategy of the created memory
create_ltm_memory_stream_body(api, have_name, n) ==
    Times(3, Log)
    \o (IF ~api.memory_client THEN <<Log, Call("MemoryClient"), Log>> ELSE <<>>)
    \o (IF ~have_name THEN <<Log>> ELSE <<>>)
    \o <<SendEvent("code")>> \o Times(15, Log) \o <<Call("create_memory_and_wait")>>
    \o Times(5, Log) \o Times(n, Log) \o Times(5, Log) \o <<Result>>

MemoryGenerators ==
    {"initialize_stream", "demo_stm_step1_stream", "demo_stm_step2_stream",
     "demo_ltm_step1_stream", "demo_ltm_step2_stream", "demo_combined_stream",
     "create_stm_memory_stream", "create_ltm_memory_stream"}

\* items a retrieval returns or strategies a memory has
MaxItems == 1

SseInit ==
    /\ memory_api \in [memory_client : {FALSE}, bedrock_runtime : {FALSE}, stm_manager : {FALSE},
                       ltm_manager : {FALSE}, stm_memory_id : {FALSE}, ltm_memory_id : {FALSE}]
    /\ runtime_sessions = << >>
    /\ s3_client = FALSE
    /\ sse_last = [gen |-> "none", events |-> <<>>, raised |-> FALSE]

\* one stream of a generator, read to its end
Stream(gen, r) == sse_last' = [gen |-> gen, events |-> r.events, raised |-> r.raised]

MockStream(name) ==
    /\ Stream(name, TryOnly(MockBody(name), <<>>, {}, <<>>))
    /\ UNCHANGED <<memory_api, runtime_sessions, s3_client>>
    /\ UNCHANGED otherThanSse

step5_create_package_stream(package_exists) ==
    /\ Stream("step5_create_package_stream",
              TryOnly(step5_create_package_body(package_exists), <<>>, {}, <<>>))
    /\ UNCHANGED <<memory_api, runtime_sessions, s3_client>>
    /\ UNCHANGED otherThanSse

container_step5_build_push_stream(configured) ==
    /\ Stream("container_step5_build_push_stream",
              TryOnly(container_step5_build_push_body(configured), <<>>, {}, <<>>))
    /\ UNCHANGED <<memory_api, runtime_sessions, s3_client>>
    /\ UNCHANGED otherThanSse

\* init_clients() creates the boto3 clients when s3_client is None; it is
\* called before the try of a handler and before a stream is started
InitClientsRaises(clients_ok) == ~s3_client /\ ~clients_ok

\* runtime_sessions[session_id] = {...} once create_agent_runtime returned;
\* when init_clients raises there is no stream
Deploy(gen, body, session_id, deployment_type, clients_ok, raising) ==
    LET r == TryExcept(body, DeployHandler, raising, <<>>) IN
    /\ IF InitClientsRaises(clients_ok)
       THEN UNCHANGED <<runtime_sessions, s3_client, sse_last>>
       ELSE /\ s3_client' = TRUE
            /\ Stream(gen, r)
            /\ runtime_sessions' =
                  IF "create_agent_runtime" \in r.calls
                  THEN [x \in DOMAIN runtime_sessions \cup {session_id} |->
                           IF x = session_id THEN deployment_type ELSE runtime_sessions[x]]
                  ELSE runtime_sessions
    /\ UNCHANGED memory_api
    /\ UNCHANGED otherThanSse

step5_deploy_runtime_stream(session_id, package_exists, clients_ok, raising) ==
    Deploy("step5_deploy_runtime_stream", step5_deploy_body(package_exists), session_id, "code",
           clients_ok, raising)

container_step6_deploy_stream(session_id, clients_ok, raising) ==
    Deploy("container_step6_deploy_stream", container_step6_deploy_body, session_id, "container",
           clients_ok, raising)

initialize_stream(stm_memory_id, ltm_memory_id, raising) ==
    LET have_stm == stm_memory_id \/ memory_api.stm_memory_id
        have_ltm == ltm_memory_id \/ memory_api.ltm_memory_id
        r == TryExcept(initialize_stream_body(have_stm /\ have_ltm), MemoryHandler, raising, <<>>)
    IN /\ Stream("initialize_stream", r)
       /\ memory_api' =
             [memory_client |-> memory_api.memory_client \/ "MemoryClient" \in r.calls,
              bedrock_runtime |-> memory_api.bedrock_runtime \/ "boto3.client" \in r.calls,
              stm_manager |-> memory_api.stm_manager \/ "stm MemorySessionManager" \in r.calls,
              ltm_manager |-> memory_api.ltm_manager \/ "ltm MemorySessionManager" \in r.calls,
              stm_memory_id |-> have_stm,
              ltm_memory_id |-> have_ltm]
       /\ UNCHANGED <<runtime_sessions, s3_client>>
       /\ UNCHANGED otherThanSse

\* the demo generators leave the fields of the object alone
Demo(gen, body, raising, chunks) ==
    /\ Stream(gen, TryExcept(body, MemoryHandler, raising, chunks))
    /\ UNCHANGED <<memory_api, runtime_sessions, s3_client>>
    /\ UNCHANGED otherThanSse

demo_stm_step1_stream(raising, chunks) ==
    Demo("demo_stm_step1_stream", demo_stm_step1_stream_body(memory_api), raising, chunks)

demo_stm_step2_stream(have_session, n, raising, chunks) ==
    Demo("demo_stm_step2_stream", demo_stm_step2_stream_body(memory_api, have_session, n),
         raising, chunks)

demo_ltm_step1_stream(raising, chunks) ==
    Demo("demo_ltm_step1_stream", demo_ltm_step1_stream_body(memory_api), raising, chunks)

demo_ltm_step2_stream(have_actor, n, raising, chunks) ==
    Demo("demo_ltm_step2_stream", demo_ltm_step2_stream_body(memory_api, have_actor, n),
         raising, chunks)

demo_combined_stream(raising, chunks) ==
    Demo("demo_combined_stream", demo_combined_stream_body(memory_api), raising, chunks)

\* the create generators set memory_client when it was not set
Create(gen, body, raising) ==
    LET r == TryExcept(body, MemoryHandler, raising, <<>>) IN
    /\ Stream(gen, r)
    /\ memory_api' = [memory_api EXCEPT
                         !.memory_client = memory_api.memory_client \/ "MemoryClient" \in r.calls]
    /\ UNCHANGED <<runtime_sessions, s3_client>>
    /\ UNCHANGED otherThanSse

create_stm_memory_stream(have_name, raising) ==
    Create("create_stm_memory_stream", create_stm_memory_stream_body(memory_api, have_name), raising)

create_ltm_memory_stream(have_name, n, raising) ==
    Create("create_ltm_memory_stream", create_ltm_memory_stream_body(memory_api, have_name, n),
           raising)

SseNext ==
    \/ \E name \in DOMAIN MockLines : MockStream(name)
    \/ \E package_exists \in BOOLEAN : step5_create_package_stream(package_exists)
    \/ \E configured \in BOOLEAN : container_step5_build_push_stream(configured)
    \/ \E session_id \in RtSessionIds, package_exists \in BOOLEAN, clients_ok \in BOOLEAN,
          raising \in SUBSET {"s3_client.upload_fileobj", "create_agent_runtime"} :
          step5_deploy_runtime_stream(session_id, package_exists, clients_ok, raising)
    \/ \E session_id \in RtSessionIds, clients_ok \in BOOLEAN,
          raising \in SUBSET {"build_container_image_uri", "create_agent_runtime"} :
          container_step6_deploy_stream(session_id, clients_ok, raising)
    \/ \E stm_memory_id \in BOOLEAN, ltm_memory_id \in BOOLEAN,
          raising \in SUBSET {"MemoryClient", "boto3.client", "stm MemorySessionManager",
                              "ltm MemorySessionManager"} :
          initialize_stream(stm_memory_id, ltm_memory_id, raising)
    \/ \E raising \in SUBSET {"stm add_turns"}, chunks \in LlmYields :
          demo_stm_step1_stream(raising, chunks)
    \/ \E have_session \in BOOLEAN, n \in 0..MaxItems,
          raising \in SUBSET {"stm get_last_k_turns", "stm add_turns"}, chunks \in LlmYields :
          demo_stm_step2_stream(have_session, n, raising, chunks)
    \/ \E raising \in SUBSET {"ltm add_turns"}, chunks \in LlmYields :
          demo_ltm_step1_stream(raising, chunks)
    \/ \E have_actor \in BOOLEAN, n \in 0..MaxItems,
          raising \in SUBSET {"ltm search_long_term_memories", "ltm add_turns"},
          chunks \in LlmYields : demo_ltm_step2_stream(have_actor, n, raising, chunks)
    \/ \E raising \in SUBSET {"ltm search_long_term_memories", "stm get_last_k_turns",
                              "stm add_turns", "ltm add_turns"}, chunks \in LlmYields :
          demo_combined_stream(raising, chunks)
    \/ \E have_name \in BOOLEAN, raising \in SUBSET {"MemoryClient", "create_memory_and_wait"} :
          create_stm_memory_stream(have_name, raising)
    \/ \E have_name \in BOOLEAN, n \in 0..MaxItems,
          raising \in SUBSET {"MemoryClient", "create_memory_and_wait"} :
          create_ltm_memory_stream(have_name, n, raising)

(***************************************************************************)
(* The JSON handlers of the memory API and of the runtime router.  A body  *)
(* lists the SDK calls of the handler's try in order; Absorb is a call in  *)
(* a try of its own whose exception does not leave it: converse in         *)
(* call_llm, whose except returns the error text as the reply.             *)
(***************************************************************************)
Absorb(name) == TryCall(name, <<>>, <<>>)

\* run the try body: it returns at its end or at a return, or a call raises
RECURSIVE Handle(_, _, _, _, _)
Handle(body, i, raising, absorbed, calls) ==
    IF i > Len(body) THEN [outcome |-> "returned", by |-> "none", absorbed |-> absorbed, calls |-> calls]
    ELSE LET in == body[i] IN
         CASE in.op = "return" ->
                [outcome |-> "refused", by |-> "none", absorbed |-> absorbed, calls |-> calls]
           [] in.op = "call" ->
                IF in.name \in raising
                THEN [outcome |-> "raised", by |-> in.name, absorbed |-> absorbed, calls |-> calls]
                ELSE Handle(body, i + 1, raising, absorbed, calls \cup {in.name})
           [] in.op = "try_call" ->
                IF in.name \in raising
                THEN Handle(body, i + 1, raising, absorbed \cup {in.name}, calls)
                ELSE Handle(body, i + 1, raising, absorbed, calls \cup {in.name})

\* the calls that raised while the handler ran
Raised(r) == r.absorbed \cup (IF r.outcome = "raised" THEN {r.by} ELSE {})

\* except Exception as e: return {"success": False, "message": f"<prefix>: {str(e)}"}
MemoryFailureBare(prefix, e) == [status |-> 200, success |-> FALSE, text |-> <<prefix>>]

MemoryFailure(prefix, e) == [status |-> 200, success |-> FALSE, text |-> <<prefix>> \o e]

\* JSONResponse(result): HTTP 200 whatever the result says
MemoryResponse(prefix, r) ==
    CASE r.outcome = "raised" -> MemoryFailure(prefix, SdkError(r.by))
      [] r.outcome = "refused" -> [status |-> 200, success |-> FALSE, text |-> <<"not initialized">>]
      [] OTHER -> [status |-> 200, success |-> TRUE, text |-> <<"ok">>]

\* raise HTTPException(status_code=500, detail=f"<prefix>: {str(e)}")
RuntimeResponse(prefix, r) ==
    IF r.outcome = "raised"
    THEN [status |-> 500, success |-> FALSE, text |-> <<prefix>> \o SdkError(r.by)]
    ELSE [status |-> 200, success |-> TRUE, text |-> <<"success">>]

\* an exception that leaves the handler: the framework's answer
InternalServerError == [status |-> 500, success |-> FALSE, text |-> <<"Internal Server Error">>]

ClientIfUnset == IF ~memory_api.memory_client THEN <<Call("MemoryClient")>> ELSE <<>>

ErrInit == err_last = [op |-> "none", raised |-> {}, resp |-> [status |-> 0, success |-> TRUE, text |-> <<>>]]

\* a method of the memory API behind its endpoint: `body` is its try; the ids
\* are stored before the first call, and the field a call sets stays set
MemoryMethod(op, prefix, body, stm_memory_id, ltm_memory_id, raising) ==
    LET r == Handle(body, 1, raising, {}, {}) IN
    /\ err_last' = [op |-> op, raised |-> Raised(r), resp |-> MemoryResponse(prefix, r)]
    /\ memory_api' =
          [memory_client |-> memory_api.memory_client \/ "MemoryClient" \in r.calls,
           bedrock_runtime |-> memory_api.bedrock_runtime \/ "boto3.client" \in r.calls,
           stm_manager |-> memory_api.stm_manager \/ "stm MemorySessionManager" \in r.calls,
           ltm_manager |-> memory_api.ltm_manager \/ "ltm MemorySessionManager" \in r.calls,
           stm_memory_id |-> memory_api.stm_memory_id \/ stm_memory_id,
           ltm_memory_id |-> memory_api.ltm_memory_id \/ ltm_memory_id]
    /\ UNCHANGED <<runtime_sessions, s3_client, sse_last>>
    /\ UNCHANGED otherThanErr

initialize(stm_memory_id, ltm_memory_id, raising) ==
    MemoryMethod("initialize", "initialize failed",
        IF ~(stm_memory_id \/ memory_api.stm_memory_id) \/ ~(ltm_memory_id \/ memory_api.ltm_memory_id)
        THEN <<Return>>
        ELSE <<Call("MemoryClient"), Call("boto3.client"), Call("stm MemorySessionManager"),
               Call("ltm MemorySessionManager")>>,
        stm_memory_id, ltm_memory_id, raising)

demo_stm_step1(raising) ==
    MemoryMethod("demo_stm_step1", "error",
        IF ~memory_api.stm_manager THEN <<Return>>
        ELSE <<Absorb("converse"), Call("stm add_turns")>>,
        FALSE, FALSE, raising)

demo_stm_step2(have_session, raising) ==
    MemoryMethod("demo_stm_step2", "error",
        IF ~memory_api.stm_manager \/ ~have_session THEN <<Return>>
        ELSE <<Call("stm get_last_k_turns"), Absorb("converse"), Call("stm add_turns")>>,
        FALSE, FALSE, raising)

demo_ltm_step1(raising) ==
    MemoryMethod("demo_ltm_step1", "error",
        IF ~memory_api.ltm_manager THEN <<Return>>
        ELSE <<Absorb("converse"), Call("ltm add_turns")>>,
        FALSE, FALSE, raising)

demo_ltm_step2(have_actor, raising) ==
    MemoryMethod("demo_ltm_step2", "error",
        IF ~memory_api.ltm_manager \/ ~have_actor THEN <<Return>>
        ELSE <<Call("ltm search_long_term_memories"), Absorb("converse"), Call("ltm add_turns")>>,
        FALSE, FALSE, raising)

\* get_last_k_turns sits in a try of its own: except: pass
demo_combined(raising) ==
    MemoryMethod("demo_combined", "error",
        IF ~memory_api.stm_manager \/ ~memory_api.ltm_manager THEN <<Return>>
        ELSE <<Call("ltm search_long_term_memories"), Absorb("stm get_last_k_turns"),
               Absorb("converse"), Call("stm add_turns"), Call("ltm add_turns")>>,
        FALSE, FALSE, raising)

create_stm_memory(raising) ==
    MemoryMethod("create_stm_memory", "STM create failed",
        ClientIfUnset \o <<Call("create_memory_and_wait")>>, FALSE, FALSE, raising)

create_ltm_memory(raising) ==
    MemoryMethod("create_ltm_memory", "LTM create failed",
        ClientIfUnset \o <<Call("create_memory_and_wait")>>, FALSE, FALSE, raising)

list_memories(raising) ==
    MemoryMethod("list_memories", "list failed",
        ClientIfUnset \o <<Call("list_memories")>>, FALSE, FALSE, raising)

\* with a session id one list_events; without, list_actor_sessions and a
\* list_events for each of the first three of the n sessions
list_stm_events(have_session, n, raising) ==
    MemoryMethod("list_stm_events", "list events failed",
        IF ~memory_api.stm_manager THEN <<Return>>
        ELSE IF have_session THEN <<Call("list_events")>>
        ELSE <<Call("list_actor_sessions")>> \o Times(IF n > 3 THEN 3 ELSE n, Call("list_events")),
        FALSE, FALSE, raising)

list_ltm_records(raising) ==
    MemoryMethod("list_ltm_records", "list records failed",
        IF ~memory_api.ltm_manager THEN <<Return>>
        ELSE <<Call("list_long_term_memory_records")>>,
        FALSE, FALSE, raising)

delete_memory(raising) ==
    MemoryMethod("delete_memory", "delete failed",
        ClientIfUnset \o <<Call("delete_memory")>>, FALSE, FALSE, raising)

\* a handler of the runtime router: init_clients runs before the try
RuntimeHandler(op, prefix, body, session_id, clients_ok, raising) ==
    LET r == Handle(body, 1, raising, {}, {}) IN
    /\ IF InitClientsRaises(clients_ok)
       THEN /\ err_last' = [op |-> op, raised |-> {"init_clients"}, resp |-> InternalServerError]
            /\ UNCHANGED <<s3_client, runtime_sessions>>
       ELSE /\ err_last' = [op |-> op, raised |-> Raised(r), resp |-> RuntimeResponse(prefix, r)]
            /\ s3_client' = TRUE
            /\ runtime_sessions' =
                  IF op = "step8_cleanup_runtime" /\ r.outcome = "returned"
                  THEN [x \in DOMAIN runtime_sessions \ {session_id} |-> runtime_sessions[x]]
                  ELSE runtime_sessions
    /\ UNCHANGED <<memory_api, sse_last>>
    /\ UNCHANGED otherThanErr

step6_check_status(session_id, clients_ok, raising) ==
    RuntimeHandler("step6_check_status", "query failed", <<Call("get_agent_runtime")>>,
                   session_id, clients_ok, raising)

\* only a code deployment stored an s3_key; the session is deleted at the end of the try
step8_cleanup_runtime(session_id, clients_ok, raising) ==
    RuntimeHandler("step8_cleanup_runtime", "delete failed",
        <<Call("delete_agent_runtime")>>
        \o (IF session_id \in DOMAIN runtime_sessions /\ runtime_sessions[session_id] = "code"
            THEN <<Absorb("s3_client.delete_object")>> ELSE <<>>),
        session_id, clients_ok, raising)

\* the handlers of the memory API and of the runtime router that answer with
\* one JSON document, and the two deployments that fill runtime_sessions
ErrNext ==
    \/ \E stm_memory_id \in BOOLEAN, ltm_memory_id \in BOOLEAN,
          raising \in SUBSET {"MemoryClient", "boto3.client", "stm MemorySessionManager",
                              "ltm MemorySessionManager"} :
          initialize(stm_memory_id, ltm_memory_id, raising)
    \/ \E raising \in SUBSET {"converse", "stm add_turns"} : demo_stm_step1(raising)
    \/ \E have_session \in BOOLEAN,
          raising \in SUBSET {"stm get_last_k_turns", "converse", "stm add_turns"} :
          demo_stm_step2(have_session, raising)
    \/ \E raising \in SUBSET {"converse", "ltm add_turns"} : demo_ltm_step1(raising)
    \/ \E have_actor \in BOOLEAN,
          raising \in SUBSET {"ltm search_long_term_memories", "converse", "ltm add_turns"} :
          demo_ltm_step2(have_actor, raising)
    \/ \E raising \in SUBSET {"ltm search_long_term_memories", "stm get_last_k_turns", "converse",
                              "stm add_turns", "ltm add_turns"} : demo_combined(raising)
    \/ \E raising \in SUBSET {"MemoryClient", "create_memory_and_wait"} : create_stm_memory(raising)
    \/ \E raising \in SUBSET {"MemoryClient", "create_memory_and_wait"} : create_ltm_memory(raising)
    \/ \E raising \in SUBSET {"MemoryClient", "list_memories"} : list_memories(raising)
    \/ \E have_session \in BOOLEAN, n \in 0..MaxItems,
          raising \in SUBSET {"list_actor_sessions", "list_events"} :
          list_stm_events(have_session, n, raising)
    \/ \E raising \in SUBSET {"list_long_term_memory_records"} : list_ltm_records(raising)
    \/ \E raising \in SUBSET {"MemoryClient", "delete_memory"} : delete_memory(raising)
    \/ \E session_id \in RtSessionIds, clients_ok \in BOOLEAN,
          raising \in SUBSET {"get_agent_runtime"} :
          step6_check_status(session_id, clients_ok, raising)
    \/ \E session_id \in RtSessionIds, clients_ok \in BOOLEAN,
          raising \in SUBSET {"delete_agent_runtime", "s3_client.delete_object"} :
          step8_cleanup_runtime(session_id, clients_ok, raising)
    \/ \E session_id \in RtSessionIds, package_exists \in BOOLEAN, clients_ok \in BOOLEAN,
          raising \in SUBSET {"s3_client.upload_fileobj", "create_agent_runtime"} :
          step5_deploy_runtime_stream(session_id, package_exists, clients_ok, raising)
    \/ \E session_id \in RtSessionIds, clients_ok \in BOOLEAN,
          raising \in SUBSET {"build_container_image_uri", "create_agent_runtime"} :
          container_step6_deploy_stream(session_id, clients_ok, raising)

(***************************************************************************)
(* The log buffers (app.py): the logging handler of the root logger and    *)
(* the two objects that stand in for sys.stdout and sys.stderr.  The       *)
(* timestamp of an entry is the clock's and is left out.                   *)
(***************************************************************************)
MaxLogEntries == 2

Levels == {"INFO", "WARNING"}

\* record.levelname.lower() and the mapping to the UI's log types
LogType(levelname) ==
    CASE levelname = "WARNING" -> "stderr"
      [] levelname \in {"ERROR", "CRITICAL"} -> "error"
      [] levelname = "INFO" -> "info"
      [] levelname = "DEBUG" -> "stdout"
      [] OTHER -> Lower(levelname)

\* the n-th entry: Formatter('%(levelname)s: %(message)s')
LogEntry(n, levelname) ==
    [k |-> "entry", n |-> n, type |-> LogType(levelname), data |-> <<levelname, ": ", "message">>]

LogInit ==
    /\ ws_handler_buffer = <<>>
    /\ capture_buffers = [stdout |-> <<>>, stderr |-> <<>>]
    /\ log_count = 0
    /\ log_pending = <<>>

\* WebSocketLogHandler.emit(record): the entry is stored, nothing is sent
emit(levelname) ==
    /\ log_count < MaxLogEntries
    /\ log_count' = log_count + 1
    /\ ws_handler_buffer' = LastCap(Append(ws_handler_buffer, LogEntry(log_count + 1, levelname)))
    /\ UNCHANGED <<capture_buffers, log_pending>>
    /\ UNCHANGED wsVars
    /\ UNCHANGED otherThanLog

\* what is written: nothing, white space only, or a text
Written == {"", " ", "text"}

\* StdoutCaptureHandler.write(data) of stdout_capture or stderr_capture:
\* `if data and data.strip()`
write(log_type, data) ==
    /\ log_count < MaxLogEntries
    /\ log_count' = log_count + 1
    /\ capture_buffers' =
          IF data \notin {"", " "}
          THEN [capture_buffers EXCEPT ![log_type] =
                   LastCap(Append(@, [k |-> "written", n |-> log_count + 1, type |-> log_type,
                                      data |-> data]))]
          ELSE capture_buffers
    /\ UNCHANGED <<ws_handler_buffer, log_pending>>
    /\ UNCHANGED wsVars
    /\ UNCHANGED otherThanLog

\* what the server does by itself: it logs, writes and sends
LogServer ==
    \/ \E levelname \in Levels : emit(levelname)
    \/ \E log_type \in {"stdout", "stderr"}, data \in Written : write(log_type, data)
    \/ send_json(JsonData(ws_next))

\* logging, writing, and the ConnectionManager calls that have a socket to send to
LogNext ==
    \/ \E levelname \in Levels : emit(levelname)
    \/ \E log_type \in {"stdout", "stderr"}, data \in Written : write(log_type, data)
    \/ \E w \in Sockets, sid \in Sessions \cup {NoSession} : WsConnect(w, sid)
    \/ \E w \in Sockets : WsDisconnect(w)
    \/ send_json(JsonData(ws_next))

(***************************************************************************)
(* WebSocketLogger and the broadcast queue of the ConnectionManager.       *)
(***************************************************************************)
\* the log_data of the n-th call
LogData(n, log_type, data) == [k |-> "log", n |-> n, type |-> log_type, data |-> data]

\* WebSocketLogger.__call__(data): the entry is appended to the manager's
\* queue; with a running loop and a connection the send is handed to the
\* loop; the print at the end goes through stdout_capture.write
WebSocketLogger(log_type, data, loop_running) ==
    /\ log_count < MaxLogEntries
    /\ log_count' = log_count + 1
    /\ \E log_data \in {LogData(log_count + 1, log_type, data)} :
          /\ message_queue' = Append(message_queue, log_data)
          /\ log_pending' = IF loop_running /\ active_connections # <<>>
                            THEN Append(log_pending, log_data) ELSE log_pending
          /\ ws_last' = [op |-> "WebSocketLogger", data |-> log_data,
                         scheduled |-> loop_running /\ active_connections # <<>>]
    /\ capture_buffers' =
          [capture_buffers EXCEPT !["stdout"] =
              LastCap(Append(@, [k |-> "written", n |-> log_count + 1, type |-> "stdout",
                                 data |-> <<"[", log_type, "] ", data>>]))]
    /\ UNCHANGED <<ws_handler_buffer, active_connections, session_connections, connection_sessions,
                   session_message_queues, ws_accepted, ws_closed, ws_hist, ws_next, ws_sends>>
    /\ UNCHANGED otherThanLog

\* the event loop runs the send_json the logger handed to it
scheduled_send_json ==
    /\ log_pending # <<>>
    /\ SendJson(Head(log_pending))
    /\ log_pending' = Tail(log_pending)
    /\ UNCHANGED <<ws_handler_buffer, capture_buffers, log_count, ws_next, ws_sends>>
    /\ UNCHANGED otherThanLog

\* the entries of the queue before the first step
Old(n) == [i \in 1..n |-> [k |-> "old", n |-> i]]

\* the manager as constructed, or after QueueCap calls of the logger
QueueInit ==
    /\ active_connections = <<>>
    /\ session_connections = EmptyMap
    /\ connection_sessions = EmptyMap
    /\ \E n \in {0, QueueCap} : message_queue = Old(n)
    /\ session_message_queues = EmptyMap
    /\ ws_hist = [x \in Sessions |-> <<>>]
    /\ ws_next = 1
    /\ ws_accepted = {}
    /\ ws_closed = {}
    /\ ws_sends = 0
    /\ ws_last = [op |-> "none"]

QueueNext ==
    \/ \E log_type \in {"stdout", "stderr"}, loop_running \in BOOLEAN :
          WebSocketLogger(log_type, "text", loop_running)
    \/ scheduled_send_json
    \/ send_json(JsonData(ws_next))
    \/ \E w \in Sockets, sid \in Sessions \cup {NoSession} : WsConnect(w, sid)
    \/ \E w \in Sockets : WsDisconnect(w)

(***************************************************************************)
(* scripts/check_runtime_prerequisites.py.  The environment is what        *)
(* os.getenv gives; `world` is what the SDK calls and the file system do.  *)
(***************************************************************************)
ExampleAccountId == "123456789012"
ExampleBucket == "bedrock-agentcore-code-123456789012-us-west-2"
ExampleRoleArn == "arn:aws:iam::123456789012:role/AmazonBedrockAgentCoreSDKRuntime-us-west-2"
ExampleContainerRoleArn == "arn:aws:iam::123456789012:role/AmazonBedrockAgentCoreContainerRuntime-us-west-2"

\* a value os.getenv gave is truthy
IsSet(v) == v # Unset /\ v # ""

\* print_status(check_name, passed, message)
Status(check_name, passed, message) == [check |-> check_name, passed |-> passed, message |-> message]

\* a check that returned: its result and what it printed
Returned(passed, printed) == [raised |-> FALSE, passed |-> passed, printed |-> printed]

\* a check that an exception left
Left(exc, printed) == [raised |-> TRUE, exc |-> exc, printed |-> printed]

EnvStatus(names, examples, env) ==
    [i \in 1..Len(names) |->
        IF IsSet(env[names[i]]) /\ env[names[i]] \notin examples
        THEN Status(names[i], TRUE, env[names[i]])
        ELSE Status(names[i], FALSE, "not configured or example value")]

AllPassed(lines) == \A i \in 1..Len(lines) : lines[i].passed

check_env_variables(env) ==
    LET lines == EnvStatus(<<"AWS_REGION", "AWS_ACCOUNT_ID", "S3_BUCKET", "EXECUTION_ROLE_ARN",
                             "DEPLOYMENT_PACKAGE_PATH">>,
                           {ExampleAccountId, ExampleBucket, ExampleRoleArn}, env)
    IN Returned(AllPassed(lines),
                lines \o <<Status("AWS_ACCESS_KEY_ID", TRUE, "optional"),
                           Status("AWS_SECRET_ACCESS_KEY", TRUE, "optional")>>)

\* CONTAINER_IMAGE_TAG has the default "latest"
check_container_env_variables(env) ==
    LET lines == EnvStatus(<<"CONTAINER_ECR_REPOSITORY_NAME", "CONTAINER_IMAGE_TAG",
                             "CONTAINER_EXECUTION_ROLE_ARN">>,
                           {ExampleContainerRoleArn},
                           [env EXCEPT !.CONTAINER_IMAGE_TAG = IF @ = Unset THEN "latest" ELSE @])
    IN Returned(AllPassed(lines), lines)

check_aws_credentials(world) ==
    IF world.sts = "ok"
    THEN Returned(TRUE, <<Status("credentials", TRUE, "account"), Status("ARN", TRUE, "arn")>>)
    ELSE Returned(FALSE, <<Status("credentials", FALSE, world.sts)>>)

\* only a ClientError is caught
check_s3_bucket(env, world) ==
    IF ~IsSet(env.S3_BUCKET) \/ env.S3_BUCKET = ExampleBucket
    THEN Returned(FALSE, <<Status("S3 Bucket", FALSE, "not configured or example value")>>)
    ELSE IF world.head_bucket = "ok"
    THEN Returned(TRUE, <<Status("S3 Bucket", TRUE, "exists")>>)
    ELSE IF world.head_bucket \in {"404", "403", "500"}
    THEN Returned(FALSE, <<Status("S3 Bucket", FALSE, world.head_bucket)>>)
    ELSE Left(world.head_bucket, <<>>)

check_iam_role(env, world) ==
    IF ~IsSet(env.EXECUTION_ROLE_ARN) \/ env.EXECUTION_ROLE_ARN = ExampleRoleArn
    THEN Returned(FALSE, <<Status("IAM role", FALSE, "not configured or example value")>>)
    ELSE IF world.get_role = "ok"
    THEN Returned(TRUE, <<Status("IAM role", TRUE, "exists")>>)
    ELSE Returned(FALSE, <<Status("IAM role", FALSE, world.get_role)>>)

\* an optional check: True on every path
check_bedrock_model_access(world) ==
    Returned(TRUE, <<Status("Bedrock", TRUE, world.list_foundation_models)>>)

check_deployment_package(world) ==
    IF world.package_exists
    THEN Returned(TRUE, <<Status("package", TRUE, "size")>>)
    ELSE Returned(FALSE, <<Status("package", FALSE, "file does not exist")>>)

\* an optional check: True on every path
check_ecr_image(env, world) ==
    IF ~IsSet(env.CONTAINER_ECR_REPOSITORY_NAME) \/ env.CONTAINER_ECR_REPOSITORY_NAME = "my-strands-agent"
    THEN Returned(TRUE, <<Status("ECR image", FALSE, "repository name not configured")>>)
    ELSE IF ~IsSet(env.AWS_ACCOUNT_ID) \/ env.AWS_ACCOUNT_ID = ExampleAccountId
    THEN Returned(TRUE, <<Status("ECR image", FALSE, "account id not configured")>>)
    ELSE IF world.ecr = "ok"
    THEN Returned(TRUE, <<Status("ECR repository", TRUE, "exists"), Status("ECR image", TRUE, "exists")>>)
    ELSE IF world.ecr = "RepositoryNotFoundException"
    THEN Returned(TRUE, <<Status("ECR repository", FALSE, "does not exist")>>)
    ELSE IF world.ecr = "ImageNotFoundException"
    THEN Returned(TRUE, <<Status("ECR repository", TRUE, "exists"), Status("ECR image", FALSE, "does not exist")>>)
    ELSE Returned(TRUE, <<Status("ECR image check", FALSE, world.ecr)>>)

\* the keys of main's results table and the checks, in the order of the dict display
ResultKeys ==
    <<"env (Direct Code)", "credentials", "S3 Bucket", "IAM role", "Bedrock model",
      "package (Direct Code)", "env (Container)", "ECR image (Container)">>

Checks(env, world) ==
    <<check_env_variables(env), check_aws_credentials(world), check_s3_bucket(env, world),
      check_iam_role(env, world), check_bedrock_model_access(world),
      check_deployment_package(world), check_container_env_variables(env),
      check_ecr_image(env, world)>>

\* the keys main looks up for its suggestions: results["..."]
SuggestionKeys == <<"env", "credentials", "S3 Bucket", "IAM role", "package">>

\* the first check an exception left, or 0
FirstLeft(checks) ==
    IF \E i \in 1..Len(checks) : checks[i].raised
    THEN CHOOSE i \in 1..Len(checks) : checks[i].raised /\ \A j \in 1..(i - 1) : ~checks[j].raised
    ELSE 0

\* what the first n checks printed
RECURSIVE Shown(_, _)
Shown(checks, n) == IF n = 0 THEN <<>> ELSE Shown(checks, n - 1) \o checks[n].printed

\* the suggestions main prints until a lookup fails: results[key] raises
\* KeyError for a key that is not in the table
RECURSIVE Suggest(_, _, _)
Suggest(keys, table, printed) ==
    IF keys = <<>> THEN [raised |-> FALSE, printed |-> printed]
    ELSE IF ~\E i \in 1..Len(table) : table[i].check = Head(keys)
    THEN [raised |-> TRUE, printed |-> printed]
    ELSE LET r == CHOOSE r \in {table[i] : i \in 1..Len(table)} : r.check = Head(keys)
         IN Suggest(Tail(keys), table,
                    IF r.passed THEN printed ELSE Append(printed, [suggestion |-> Head(keys)]))

ChkInit ==
    /\ chk_pc = "start"
    /\ chk_results = <<>>
    /\ chk_printed = <<>>
    /\ chk_end = [k |-> "running"]

\* main() after its checks: the table, the summary, the suggestions
MainWith(checks) ==
    LET n == FirstLeft(checks)
        done == IF n = 0 THEN Len(checks) ELSE n - 1
        shown == Shown(checks, IF n = 0 THEN done ELSE n)
    IN \E table \in {[i \in 1..done |-> Status(ResultKeys[i], checks[i].passed, "")]} :
       \E s \in {Suggest(SuggestionKeys, table, <<>>)} :
          /\ chk_results' = table
          /\ IF n # 0
             THEN /\ chk_printed' = shown
                  /\ chk_end' = [k |-> "raised", exc |-> checks[n].exc]
             ELSE IF AllPassed(table)
             THEN /\ chk_printed' = shown \o <<[summary |-> table]>> \o <<[all_passed |-> TRUE]>>
                  /\ chk_end' = [k |-> "returned", code |-> 0]
             ELSE /\ chk_printed' = shown \o <<[summary |-> table]>> \o <<[all_passed |-> FALSE]>>
                                    \o s.printed
                  /\ chk_end' = IF s.raised THEN [k |-> "raised", exc |-> "KeyError"]
                                ELSE [k |-> "returned", code |-> 1]

\* main(), run once by the process: sys.exit(main())
main(env, world) ==
    /\ chk_pc = "start"
    /\ chk_pc' = "done"
    /\ \E checks \in {Checks(env, world)} : MainWith(checks)
    /\ UNCHANGED otherThanChk

Envs ==
    [AWS_REGION : {Unset, "us-west-2"},
     AWS_ACCOUNT_ID : {ExampleAccountId, "111122223333"},
     S3_BUCKET : {Unset, ExampleBucket, "bucket"},
     EXECUTION_ROLE_ARN : {ExampleRoleArn, "arn:aws:iam::111122223333:role/runtime"},
     DEPLOYMENT_PACKAGE_PATH : {Unset, "package.zip"},
     CONTAINER_ECR_REPOSITORY_NAME : {Unset, "repository"},
     CONTAINER_IMAGE_TAG : {Unset},
     CONTAINER_EXECUTION_ROLE_ARN : {ExampleContainerRoleArn, "arn:aws:iam::111122223333:role/container"}]

Worlds ==
    [sts : {"ok", "NoCredentialsError"},
     head_bucket : {"ok", "404", "403", "500", "NoCredentialsError"},
     get_role : {"ok", "NoSuchEntity", "AccessDenied"},
     list_foundation_models : {"ok", "AccessDenied"},
     package_exists : BOOLEAN,
     ecr : {"ok", "RepositoryNotFoundException", "ImageNotFoundException"}]

ChkNext == chk_pc = "start" /\ \E env \in Envs, world \in Worlds : main(env, world)

(***************************************************************************)
(* scripts/diagnose_container_invoke.py.  An ARN is the sequence of its    *)
(* parts between the colons; a JSON body is given by the kind of value it  *)
(* holds.                                                                  *)
(***************************************************************************)
\* runtime_arn.startswith('arn:aws:bedrock-agentcore:')
ArnFormatOk(arn) == Len(arn) >= 4 /\ SubSeq(arn, 1, 3) = <<"arn", "aws", "bedrock-agentcore">>

\* len(test_session_id): 'diagnostic-test-session-12345678901234567890'
TestSessionIdLen == 44

\* json.loads(response_body) and then `'output' in response_data`: the
\* operator `in` raises TypeError on a number, a boolean and null
AfterInvoke(body) ==
    CASE body = "read raises" -> <<[step |-> "read", ok |-> FALSE]>>
      [] body = "not json" -> <<[step |-> "read", ok |-> TRUE], [step |-> "json.loads", ok |-> FALSE]>>
      [] body \in {"number", "null", "boolean"} ->
           <<[step |-> "read", ok |-> TRUE], [step |-> "json.loads", ok |-> TRUE],
             [step |-> "print", text |-> "call succeeded"],
             [step |-> "output in response_data", ok |-> FALSE]>>
      [] OTHER ->
           <<[step |-> "read", ok |-> TRUE], [step |-> "json.loads", ok |-> TRUE],
             [step |-> "print", text |-> "call succeeded"],
             [step |-> "output in response_data", ok |-> TRUE],
             [step |-> "print", text |-> IF body = "object with output" THEN "format ok"
                                         ELSE "warning: no output field"]>>

\* the hint printed for str(e), searched in this order
Hint(error_message) ==
    CASE error_message = "ResourceNotFoundException: not found" -> "not found"
      [] error_message = "Runtime not ready" -> "not ready"
      [] error_message = "ValidationException: validation" -> "validation"
      [] error_message = "404" -> "404 or endpoint"
      [] error_message = "500" -> "500"
      [] error_message = "Read timeout" -> "timeout"
      [] error_message = "AccessDeniedException: access denied" -> "access or denied"
      [] OTHER -> "other"

Failed(error_message) ==
    <<[step |-> "print", text |-> "call failed"], [step |-> "hint", text |-> Hint(error_message)]>>

\* str(e) of the exception the try of step 5 caught
InvokeError(world, steps) ==
    IF world.invoke # "ok" THEN world.invoke
    ELSE IF world.body = "read raises" THEN "Read timeout"
    ELSE IF world.body = "not json" THEN "Expecting value"
    ELSE "argument of type 'int' is not iterable"

StepsOk(steps) == \A i \in 1..Len(steps) : "ok" \in DOMAIN steps[i] => steps[i].ok

DiagInit ==
    /\ diag_pc = "start"
    /\ diag_trace = <<>>
    /\ diag_end = [k |-> "running"]

\* main() up to the call of diagnose_runtime, with the arguments after the
\* script's name and the region os.getenv('AWS_REGION', 'us-west-2') gives
diagnose_main(argv, region) ==
    /\ diag_pc = "start"
    /\ IF Len(argv) < 2
       THEN /\ diag_pc' = "done"
            /\ diag_trace' = <<>>
            /\ diag_end' = [k |-> "usage", exit |-> 1]
       ELSE /\ diag_pc' = "step1"
            /\ diag_trace' = <<[step |-> "diagnose_runtime", runtime_arn |-> argv[2], region |-> region]>>
            /\ UNCHANGED diag_end
    /\ UNCHANGED otherThanDiag

\* an exception that leaves diagnose_runtime leaves main too: exit code 1
Raises(steps) ==
    /\ diag_pc' = "done"
    /\ diag_trace' = diag_trace \o steps
    /\ diag_end' = [k |-> "raised", exit |-> 1]

Returns(steps, value) ==
    /\ diag_pc' = "exit"
    /\ diag_trace' = diag_trace \o steps
    /\ diag_end' = [k |-> "returned", value |-> value]

Continues(steps, pc) ==
    /\ diag_pc' = pc
    /\ diag_trace' = diag_trace \o steps
    /\ UNCHANGED diag_end

\* step 1: the control client, then get_agent_runtime inside the try
step1_check_runtime_status(control_client, status) ==
    /\ diag_pc = "step1"
    /\ IF ~control_client
       THEN Raises(<<[step |-> "boto3.client", name |-> "bedrock-agentcore-control", ok |-> FALSE]>>)
       ELSE \E steps \in {<<[step |-> "boto3.client", name |-> "bedrock-agentcore-control", ok |-> TRUE],
                            [step |-> "get_agent_runtime", status |-> status]>>} :
               IF status # "READY" THEN Returns(steps, FALSE) ELSE Continues(steps, "step2")
    /\ UNCHANGED otherThanDiag

\* steps 2 to 4: the ARN's format, the session id's length, the payload
steps2_to_4 ==
    /\ diag_pc = "step2"
    /\ \E runtime_arn \in {diag_trace[1].runtime_arn} :
          IF ~ArnFormatOk(runtime_arn)
          THEN Returns(<<[step |-> "arn format", ok |-> FALSE]>>, FALSE)
          ELSE IF TestSessionIdLen < 33
          THEN Returns(<<[step |-> "arn format", ok |-> TRUE], [step |-> "session id", ok |-> FALSE]>>,
                       FALSE)
          ELSE Continues(<<[step |-> "arn format", ok |-> TRUE], [step |-> "session id", ok |-> TRUE]>>,
                         "step5")
    /\ UNCHANGED otherThanDiag

\* step 5: the second client, then the invocation and the body inside the try
step5_invoke(world) ==
    /\ diag_pc = "step5"
    /\ IF ~world.agentcore_client
       THEN Raises(<<[step |-> "boto3.client", name |-> "bedrock-agentcore", ok |-> FALSE]>>)
       ELSE \E steps \in {<<[step |-> "boto3.client", name |-> "bedrock-agentcore", ok |-> TRUE],
                            [step |-> "invoke_agent_runtime", ok |-> world.invoke = "ok"]>>
                          \o (IF world.invoke = "ok" THEN AfterInvoke(world.body) ELSE <<>>)} :
               IF StepsOk(steps) THEN Returns(steps, TRUE)
               ELSE Returns(steps \o Failed(InvokeError(world, steps)), FALSE)
    /\ UNCHANGED otherThanDiag

\* main() after diagnose_runtime returned: sys.exit(0 if success else 1)
diagnose_exit ==
    /\ diag_pc = "exit"
    /\ diag_pc' = "done"
    /\ diag_end' = [k |-> "returned", value |-> diag_end.value,
                    exit |-> IF diag_end.value THEN 0 ELSE 1]
    /\ UNCHANGED <<diag_trace, otherThanDiag>>

Arns ==
    {<<"arn", "aws", "bedrock-agentcore", "us-west-2", "123456789012", "agent-runtime/abc">>,
     <<"arn", "aws", "bedrock-agentcore">>,
     <<"arn", "aws", "bedrock", "us-west-2", "123456789012", "agent-runtime/abc">>,
     <<"abc">>}

Argvs == {<<"abc">>} \cup {<<"abc", arn>> : arn \in Arns}

Regions == {"us-west-2", "us-east-1"}

GetAgentRuntimeAnswers == {"READY", "CREATING", "UPDATING", "raises", "no status"}

DiagWorlds ==
    [agentcore_client : BOOLEAN,
     invoke : {"ok", "ResourceNotFoundException: not found", "Runtime not ready",
               "ValidationException: validation", "404", "500", "Read timeout",
               "AccessDeniedException: access denied", "ThrottlingException"},
     body : {"object with output", "object", "array", "string", "number", "null", "boolean",
             "not json", "read raises"}]

DiagNext ==
    \/ \E argv \in Argvs, region \in Regions : diagnose_main(argv, region)
    \/ \E control_client \in BOOLEAN, status \in GetAgentRuntimeAnswers :
          step1_check_runtime_status(control_client, status)
    \/ steps2_to_4
    \/ diag_pc = "step5" /\ \E world \in DiagWorlds : step5_invoke(world)
    \/ diagnose_exit

(***************************************************************************)
(* ConnectionManager.send_to_session, one step per suspension: the         *)
(* coroutine is suspended inside `await connection.send_json(data)` and    *)
(* other coroutines of the event loop call disconnect and                  *)
(* associate_session meanwhile.  The for loop iterates over the set object *)
(* of the session itself: the set iterator raises RuntimeError ("Set       *)
(* changed size during iteration") when the set's size differs from the    *)
(* size it had when the loop began; a set of the same size with other      *)
(* members is iterated in table order, so that the loop may reach or miss  *)
(* any member it has not reached yet.                                      *)
(***************************************************************************)
SendInit ==
    /\ send_pc = "idle"
    /\ send_call = [k |-> "none"]
    /\ send_last = [k |-> "none"]

\* the set object the loop iterates over: the one session_connections held
\* when the loop began; disconnect empties it before deleting the key
IteratedSet(call, m) ==
    IF call.detached \/ call.s \notin DOMAIN m.sc THEN {} ELSE m.sc[call.s]

StillConnected(call, m) ==
    {w \in call.start : (\E i \in 1..Len(m.ac) : m.ac[i] = w) /\ w \notin ws_closed}

\* send_to_session(session_id, data) up to its first await
send_to_session_begins(sid) ==
    /\ send_pc = "idle"
    /\ ws_sends < MaxMessages
    /\ sid \in DOMAIN session_connections
    /\ ws_sends' = ws_sends + 1
    /\ ws_next' = ws_next + 1
    /\ \E w \in session_connections[sid] :
          send_call' = [k |-> "call", s |-> sid, m |-> ws_next, start |-> session_connections[sid],
                        visited |-> {w}, cur |-> w, failed |-> {}, sent |-> {},
                        detached |-> FALSE, disturbed |-> FALSE]
    /\ send_pc' = "suspended"
    /\ UNCHANGED <<send_last, ws_last, active_connections, session_connections, connection_sessions,
                   message_queue, session_message_queues, ws_accepted, ws_closed, ws_hist>>
    /\ UNCHANGED otherThanSend

\* another coroutine changes the maps to m while the call is suspended;
\* forS says that the operation was one for the session of the call
DuringSend(m, forS) ==
    /\ send_pc = "suspended"
    /\ SetMaps(m)
    /\ send_call' = [send_call EXCEPT !.detached = @ \/ send_call.s \notin DOMAIN m.sc,
                                      !.disturbed = @ \/ forS]
    /\ UNCHANGED <<send_pc, send_last, ws_last, message_queue, session_message_queues, ws_accepted,
                   ws_hist, ws_next, ws_sends>>
    /\ UNCHANGED otherThanSend

\* disconnect(websocket) while the call is suspended
disconnect_during_send(w) ==
    /\ w \in ws_accepted
    /\ DuringSend(Disconnect(Maps, w), get_session_id(w) = send_call.s)
    /\ ws_closed' = ws_closed \cup {w}

\* associate_session(websocket, session_id) while the call is suspended
associate_during_send(w, sid) ==
    /\ \E i \in 1..Len(active_connections) : active_connections[i] = w
    /\ DuringSend(Associate(Maps, w, sid), sid = send_call.s)
    /\ UNCHANGED ws_closed

\* the loop is left by the exception of the iterator: nothing is cleaned up
SendRaises(call) ==
    /\ send_pc' = "idle"
    /\ send_call' = [k |-> "none"]
    /\ send_last' = [k |-> "raised", exc |-> "RuntimeError", s |-> call.s, m |-> call.m,
                     start |-> call.start, sent |-> call.sent, disturbed |-> call.disturbed,
                     connected |-> StillConnected(call, Maps)]
    /\ UNCHANGED <<active_connections, session_connections, connection_sessions>>

\* the loop ends; `for connection in connections_to_remove: self.disconnect(connection)`
SendReturns(call) ==
    /\ send_pc' = "idle"
    /\ send_call' = [k |-> "none"]
    /\ \E m \in {DisconnectAll(Maps, call.failed)} :
          /\ SetMaps(m)
          /\ send_last' = [k |-> "returned", s |-> call.s, m |-> call.m, start |-> call.start,
                           sent |-> call.sent, disturbed |-> call.disturbed,
                           connected |-> StillConnected(call, m)]

SendGoesOn(call, w) ==
    /\ send_pc' = "suspended"
    /\ send_call' = [call EXCEPT !.cur = w, !.visited = @ \cup {w}]
    /\ UNCHANGED <<send_last, active_connections, session_connections, connection_sessions>>

\* the awaited send_json ends, by raising when the peer is gone, and the
\* loop asks its iterator for the next connection
send_to_session_resumes ==
    /\ send_pc = "suspended"
    /\ \E call \in {[send_call EXCEPT
                       !.sent = IF send_call.cur \in ws_closed THEN @ ELSE @ \cup {send_call.cur},
                       !.failed = IF send_call.cur \in ws_closed THEN @ \cup {send_call.cur} ELSE @]} :
       \E set \in {IteratedSet(call, Maps)} :
          IF Cardinality(set) # Cardinality(call.start)
          THEN SendRaises(call)
          ELSE \/ set \ call.visited = {} /\ SendReturns(call)
               \/ set # call.start /\ SendReturns(call)
               \/ \E w \in set \ call.visited : SendGoesOn(call, w)
    /\ UNCHANGED <<ws_last, message_queue, session_message_queues, ws_accepted, ws_closed, ws_hist,
                   ws_next, ws_sends>>
    /\ UNCHANGED otherThanSend

SendNext ==
    \/ send_pc = "idle" /\ \E w \in Sockets, sid \in Sessions \cup {NoSession} : WsConnect(w, sid)
    \/ send_pc = "idle" /\ \E w \in Sockets, sid \in Sessions : WsAssociate(w, sid)
    \/ send_pc = "idle" /\ \E w \in Sockets : WsDisconnect(w)
    \/ \E w \in Sockets : WsPeerCloses(w)
    \/ \E sid \in Sessions : send_to_session_begins(sid)
    \/ \E w \in Sockets : disconnect_during_send(w)
    \/ \E w \in Sockets, sid \in Sessions : associate_during_send(w, sid)
    \/ send_to_session_resumes

(***************************************************************************)
(* The code-interpreter handlers on the event loop, one step per SDK call. *)
(* A coroutine that the loop started keeps the loop until it suspends at   *)
(* an await or ends; the handlers of agentcore_code_interpreter.py call    *)
(* the SDK synchronously and hold no await.  The iterator of               *)
(* agentcore_sessions.items() raises RuntimeError ("dictionary changed     *)
(* size during iteration") when the dict's size differs from the size it   *)
(* had when the loop began.                                                *)
(***************************************************************************)
\* the steps of a handler that starts a session, in the order of its body
HandlerSteps(handler) ==
    IF handler = "execute_agentcore_code" THEN <<"start_session", "execute_code", "store">>
    ELSE <<"start_session", "store", "invoke_code_interpreter">>

\* a handler with no await gives the loop back at none of its steps
SuspendsAtSdkCalls(handler, step) ==
    step \in {"execute_code", "invoke_code_interpreter", "stop_session"}

\* the step of the handler is an await that gives the loop back
Suspends(handler, step) == FALSE

NoExec == [handler |-> "none", pc |-> 0, session_id |-> 0]

NoReset == [pc |-> "idle", size |-> 0, todo |-> {}, attempted |-> {}, at_start |-> {}]

LoopInit ==
    /\ loop_current = "none"
    /\ loop_exec = NoExec
    /\ loop_reset = NoReset
    /\ loop_last = [k |-> "none"]

\* the loop may run a step of the coroutine: it holds the loop, or it is
\* suspended and no coroutine holds the loop
CanRun(task, started) == loop_current = task \/ (loop_current = "none" /\ started)

\* the loop starts the coroutine of a request to execute code or to run a demo
exec_begins(handler) ==
    /\ loop_current = "none"
    /\ loop_exec = NoExec
    /\ CiFresh # {}
    /\ loop_current' = "exec"
    /\ loop_exec' = [handler |-> handler, pc |-> 1, session_id |-> 0]
    /\ UNCHANGED <<loop_reset, loop_last, agentcore_sessions, ci_started, ci_stopped>>
    /\ UNCHANGED otherThanLoop

ExecEnds ==
    /\ loop_exec' = NoExec
    /\ loop_current' = "none"

ExecGoesOn(step, session_id) ==
    IF loop_exec.pc = Len(HandlerSteps(loop_exec.handler)) THEN ExecEnds
    ELSE /\ loop_exec' = [loop_exec EXCEPT !.pc = @ + 1, !.session_id = session_id]
         /\ loop_current' = IF Suspends(loop_exec.handler, step) THEN "none" ELSE "exec"

\* the next step of the handler; an SDK call that raises ends it in its except
exec_steps(raises) ==
    /\ CanRun("exec", loop_exec.pc > 0)
    /\ \E step \in {HandlerSteps(loop_exec.handler)[loop_exec.pc]} :
          CASE step = "start_session" ->
                 IF raises THEN ExecEnds /\ UNCHANGED <<agentcore_sessions, ci_started>>
                 ELSE \E session_id \in CiFresh :
                         /\ ci_started' = ci_started \cup {session_id}
                         /\ ExecGoesOn(step, session_id)
                         /\ UNCHANGED agentcore_sessions
            [] step = "store" ->
                 /\ ~raises
                 /\ agentcore_sessions' = agentcore_sessions \cup {loop_exec.session_id}
                 /\ ExecGoesOn(step, loop_exec.session_id)
                 /\ UNCHANGED ci_started
            [] OTHER ->
                 /\ IF raises THEN ExecEnds ELSE ExecGoesOn(step, loop_exec.session_id)
                 /\ UNCHANGED <<agentcore_sessions, ci_started>>
    /\ UNCHANGED <<loop_reset, loop_last, ci_stopped>>
    /\ UNCHANGED otherThanLoop

\* the loop starts the coroutine of a reset: `for ... in agentcore_sessions.items()`
reset_begins ==
    /\ loop_current = "none"
    /\ loop_reset = NoReset
    /\ loop_current' = "reset"
    /\ loop_reset' = [pc |-> "iterating", size |-> Cardinality(agentcore_sessions),
                      todo |-> agentcore_sessions, attempted |-> {},
                      at_start |-> agentcore_sessions]
    /\ UNCHANGED <<loop_exec, loop_last, agentcore_sessions, ci_started, ci_stopped>>
    /\ UNCHANGED otherThanLoop

ResetEnds(success, error, dropped) ==
    /\ loop_reset' = NoReset
    /\ loop_current' = "none"
    /\ loop_last' = [k |-> "reset", success |-> success, error |-> error, dropped |-> dropped,
                     attempted |-> loop_reset.attempted, at_start |-> loop_reset.at_start]
    /\ agentcore_sessions' = agentcore_sessions \ dropped

\* the iterator gives the next session and stop_session is called on it, or
\* the iterator raises, or the loop ends and the dict is cleared
reset_steps(stopped) ==
    /\ CanRun("reset", loop_reset.pc = "iterating")
    /\ IF Cardinality(agentcore_sessions) # loop_reset.size
       THEN /\ ResetEnds(FALSE, "dictionary changed size during iteration", {})
            /\ UNCHANGED ci_stopped
       ELSE IF loop_reset.todo = {}
       THEN /\ ResetEnds(TRUE, "", agentcore_sessions)
            /\ UNCHANGED ci_stopped
       ELSE \E session_id \in loop_reset.todo :
               /\ ci_stopped' = IF stopped THEN ci_stopped \cup {session_id} ELSE ci_stopped
               /\ loop_reset' = [loop_reset EXCEPT !.todo = @ \ {session_id},
                                                   !.attempted = @ \cup {session_id}]
               /\ loop_current' = IF Suspends("reset_agentcore_sessions", "stop_session")
                                  THEN "none" ELSE "reset"
               /\ UNCHANGED <<loop_last, agentcore_sessions>>
    /\ UNCHANGED <<loop_exec, ci_started>>
    /\ UNCHANGED otherThanLoop

LoopNext ==
    \/ \E handler \in {"execute_agentcore_code", "execute_file_management_demo",
                       "execute_shell_command_demo"} : exec_begins(handler)
    \/ \E raises \in BOOLEAN : exec_steps(raises)
    \/ reset_begins
    \/ \E stopped \in BOOLEAN : reset_steps(stopped)

vars == <<llmVars, wsVars, invVars, ciVars, authVars, sseVars, errVars, restVars>>

\* the components that came after the first seven, as constructed
RestInit == LogInit /\ ChkInit /\ DiagInit /\ SendInit /\ LoopInit

Init == LlmInit /\ WsInit /\ InvInit /\ CiInit /\ AuthInit /\ SseInit /\ ErrInit /\ RestInit

SpecLlm == Init /\ [][LlmNext]_vars

InitNearCap == LlmInit /\ WsInitNearCap /\ InvInit /\ CiInit /\ AuthInit /\ SseInit /\ ErrInit /\ RestInit

SpecWs == InitNearCap /\ [][WsNext]_vars

SpecInvoke == Init /\ [][InvNext]_vars

SpecCi == Init /\ [][CiNext]_vars

SpecAuth == Init /\ [][AuthNext]_vars

SpecSse == Init /\ [][SseNext]_vars

SpecErr == Init /\ [][ErrNext]_vars

\* the event loop keeps running what the server has to do; clients come and
\* go as they please
SpecLog == Init /\ [][LogNext]_vars /\ WF_vars(LogServer)

SpecChk == Init /\ [][ChkNext]_vars

SpecDiag == Init /\ [][DiagNext]_vars

SpecSend == Init /\ [][SendNext]_vars

InitQueue == LlmInit /\ QueueInit /\ InvInit /\ CiInit /\ AuthInit /\ SseInit /\ ErrInit /\ RestInit

SpecQueue == InitQueue /\ [][QueueNext]_vars

SpecLoop == Init /\ [][LoopNext]_vars

Next == LlmNext \/ WsNext \/ InvNext \/ CiNext \/ AuthNext \/ SseNext \/ ErrNext \/ LogNext
        \/ ChkNext \/ DiagNext \/ SendNext \/ QueueNext \/ LoopNext

Spec == Init /\ [][Next]_vars

\* ---- call_llm_stream: what is read off the trace ----
Kinds(k) == {i \in 1..Len(llm_trace) : llm_trace[i].k = k}

Attempts == Kinds("attempt")

SleepDelays ==
    LET idx == Kinds("sleep")
        nth[n \in 0..Len(llm_trace)] ==
            IF n = 0 THEN <<>>
            ELSE IF n \in idx THEN Append(nth[n - 1], llm_trace[n].v) ELSE nth[n - 1]
    IN nth[Len(llm_trace)]

Doubling == <<InitialRetryDelay, 2 * InitialRetryDelay>>

\* C2: call_llm_stream makes at most 3 converse_stream attempts per
\* invocation; the sleeps are 2 s before the second attempt and 4 s before the
\* third, one sleep between two consecutive attempts, and no sleep follows the
\* last attempt.
C2_AtMostThreeAttemptsDoublingDelay ==
    /\ Cardinality(Attempts) <= 3
    /\ \A i \in Kinds("sleep") :
         (\E j \in Attempts : j > i) \/ llm_pc = "attempt"
    /\ llm_pc = "attempt" =>
         /\ Cardinality(Attempts) = llm_attempt
         /\ SleepDelays = SubSeq(Doubling, 1, llm_attempt)
    /\ llm_pc = "done" =>
         /\ Cardinality(Attempts) >= 1
         /\ SleepDelays = SubSeq(Doubling, 1, Cardinality(Attempts) - 1)
         /\ llm_trace[Len(llm_trace)].k # "sleep"

\* A third attempt was made, after sleeps of 2 s and 4 s.
C2_Witness ==
    /\ llm_pc = "done"
    /\ Cardinality(Attempts) = 3
    /\ SleepDelays = <<2, 4>>

\* The classification of the errors by what they are, whatever their spelling.
IsThrottlingOrUnavailable(e) ==
    e \in {ErrThrottlingCall, ErrThrottlingStream, ErrUnavailableCall, ErrUnavailableStream}

AttemptsUpTo(i) == Cardinality({j \in Attempts : j <= i})

FollowedByAttempt(i) == \E j \in Attempts : j > i

\* Attempt i is retried: another attempt follows it or is about to be made.
Retried(i) == FollowedByAttempt(i) \/ llm_pc = "attempt"

\* C3: an attempt is followed by another attempt only when it failed with a
\* throttling or service-unavailable error and was not the third; an attempt
\* that failed with any other error, or the third attempt failing, is
\* followed by exactly one failure message, which ends the generator; a
\* successful attempt ends the generator with no failure message.
C3_RetryOnlyRetryableElseOneFailure ==
    \A i \in Attempts :
        LET e == llm_trace[i].v IN
        /\ Retried(i) =>
              /\ e # <<>>
              /\ IsThrottlingOrUnavailable(e)
              /\ AttemptsUpTo(i) < 3
        /\ (e # <<>> /\ (~IsThrottlingOrUnavailable(e) \/ AttemptsUpTo(i) = 3)) =>
              /\ llm_pc = "done"
              /\ ~Retried(i)
              /\ Kinds("fail") = {Len(llm_trace)}
              /\ llm_trace[Len(llm_trace)].v = e
        /\ e = <<>> =>
              /\ llm_pc = "done"
              /\ ~Retried(i)
              /\ Kinds("fail") = {}

\* A retried throttling error, then an error of another kind: one failure
\* message and the end.
C3_Witness ==
    /\ llm_pc = "done"
    /\ Cardinality(Attempts) = 2
    /\ \E i \in Attempts : llm_trace[i].v = ErrThrottlingCall /\ FollowedByAttempt(i)
    /\ llm_trace[Len(llm_trace)] = [k |-> "fail", v |-> ErrValidation]

\* ---- ConnectionManager ----
\* The sockets associated with session sid: the ones associate_session put
\* into the session's set and nothing took out.
Associated(sid) == IF sid \in DOMAIN session_connections THEN session_connections[sid] ELSE {}

Buffer(sid) == IF sid \in DOMAIN session_message_queues THEN session_message_queues[sid] ELSE <<>>

\* the last n elements of q
LastN(q, n) == IF Len(q) > n THEN SubSeq(q, Len(q) - n + 1, Len(q)) ELSE q

\* C4: a send_to_session(s, m) made while no socket is associated with s sends
\* nothing and appends m to the buffer of s; a session without an associated
\* socket has no entry in session_connections, so that every such call takes
\* this path; the buffer of s holds at most 1000 messages, the most recently
\* buffered ones in the order they were sent.
C4_BufferedWhenNoSocketCappedMostRecent ==
    /\ \A sid \in Sessions :
         /\ Associated(sid) = {} => sid \notin DOMAIN session_connections
         /\ Len(Buffer(sid)) <= 1000
         /\ Buffer(sid) = LastN(ws_hist[sid], 1000)
    /\ (ws_last.op = "send_to_session" /\ ws_last.members = {}) =>
         /\ ws_last.sent = {}
         /\ ws_last.queued
         /\ Len(Buffer(ws_last.s)) >= 1
         /\ Buffer(ws_last.s)[Len(Buffer(ws_last.s))] = ws_last.m

\* More than 1000 messages were buffered for s1 and the oldest was dropped,
\* after a socket of s1 had come and gone.
C4_Witness ==
    /\ Len(ws_hist["s1"]) = 1001
    /\ Buffer("s1") = [i \in 1..1000 |-> i + 1]
    /\ ws_last.op = "send_to_session" /\ ws_last.queued
    /\ "w1" \in ws_accepted /\ Associated("s1") = {}

\* C5: send_to_session(s, m) never sends m to a socket whose current session
\* (get_session_id) is not s.
C5_SentOnlyToSocketsOfTheSession ==
    ws_last.op = "send_to_session" => \A r \in ws_last.sent : r.cur = ws_last.s

\* C14: the two session maps agree: a socket is in session_connections[s]
\* exactly when connection_sessions maps it to s, also after the socket was
\* associated a second time with a different session.
C14_SessionMapsAgree ==
    \A w \in Sockets, sid \in Sessions : w \in Associated(sid) <=> get_session_id(w) = sid

\* C15: a send_to_session(s, m) during whose suspension a disconnect or an
\* associate_session for s ran returns without raising, and m was sent to
\* every socket that was in s when the call began and is still connected.
C15_SendUndisturbedByDisconnectAndAssociate ==
    (send_last.k # "none" /\ send_last.disturbed) =>
        /\ send_last.k = "returned"
        /\ send_last.connected \subseteq send_last.sent

\* C16: message_queue holds at most 1000 entries, and no entry of it is a
\* message that was sent to a connection.
C16_QueueCappedAndHoldsOnlyUnsent ==
    /\ Len(message_queue) <= 1000
    /\ (ws_last.op = "send_json" /\ ws_last.to # {}) =>
          \A i \in 1..Len(message_queue) : message_queue[i] # ws_last.data

\* the sockets the operation recorded in ws_last sent to
SentBy(last) ==
    IF last.op = "send_to_session" THEN {r.to : r \in last.sent}
    ELSE IF last.op = "send_json" THEN last.to
    ELSE {}

ConnectAssociateOrDisconnect ==
    \/ \E w \in Sockets, sid \in Sessions \cup {NoSession} : WsConnect(w, sid)
    \/ \E w \in Sockets, sid \in Sessions : WsAssociate(w, sid)
    \/ \E w \in Sockets : WsDisconnect(w)

\* C17: connect, associate_session and disconnect send nothing and leave
\* message_queue and every per-session buffer unchanged; a message that is
\* sent by a ConnectionManager operation is never one that was buffered for
\* a session, also when a socket is associated with the session by then.
C17_BufferedMessagesAreNeverSent ==
    [][/\ ConnectAssociateOrDisconnect =>
             /\ message_queue' = message_queue
             /\ session_message_queues' = session_message_queues
             /\ (ws_last' # ws_last => SentBy(ws_last') = {})
       /\ (ws_last' # ws_last /\ SentBy(ws_last') # {}) =>
             \A sid \in Sessions : \A i \in 1..Len(ws_hist'[sid]) : ws_hist'[sid][i] # ws_last'.m]_vars

\* A message was buffered for s1, a socket was associated with s1 later, and
\* the next message for s1 went to the socket while the first is still buffered.
C17_Witness ==
    /\ Buffer("s1") = <<1>>
    /\ Associated("s1") # {}
    /\ ws_last.op = "send_to_session" /\ ws_last.s = "s1" /\ ws_last.m = 2
    /\ ws_last.sent # {}

\* ---- step7_invoke_agent ----
\* json.loads of the payload tokens: the object, or "invalid"
JsonUnescapeUnit(u) ==
    CASE u = "ESC_QUOTE" -> "QUOTE"
      [] u = "ESC_BACKSLASH" -> "BACKSLASH"
      [] u = "ESC_n" -> "LF"
      [] u = "ESC_u00e9" -> "E_ACUTE"
      [] u \in {"QUOTE", "BACKSLASH", "LF"} -> "invalid"
      [] OTHER -> u

Invalid == [invalid |-> TRUE]

LoadsString(tok) ==
    LET t == [i \in 1..Len(tok.str) |-> [c |-> JsonUnescapeUnit(tok.str[i].c), n |-> tok.str[i].n]]
    IN [ok |-> ~\E i \in 1..Len(t) : t[i].c = "invalid", v |-> t]

JsonLoads(toks) ==
    IF Len(toks) = 5 /\ SubSeq(toks, 1, 3) = <<Tok("{"), Tok("\"prompt\""), Tok(":")>>
       /\ toks[4].t = "string" /\ toks[5] = Tok("}")
    THEN LET p == LoadsString(toks[4])
         IN IF ~p.ok THEN Invalid ELSE [prompt |-> p.v]
    ELSE IF Len(toks) = 9
            /\ SubSeq(toks, 1, 6) = <<Tok("{"), Tok("\"input\""), Tok(":"), Tok("{"),
                                      Tok("\"prompt\""), Tok(":")>>
            /\ toks[7].t = "string" /\ SubSeq(toks, 8, 9) = <<Tok("}"), Tok("}")>>
    THEN LET p == LoadsString(toks[7])
         IN IF ~p.ok THEN Invalid ELSE [input |-> [prompt |-> p.v]]
    ELSE Invalid

\* the request a body stands for, in the claim's words
BodyIsValid(body) ==
    /\ body.prompt.k = "value"
    /\ \E i \in 1..Len(body.prompt.v) : ~IsSpace(body.prompt.v[i].c)
    /\ TextLen(body.prompt.v) <= 10000
    /\ body.runtime_session_id.k = "value"
    /\ TextLen(body.runtime_session_id.v) >= 33
    /\ body.deployment_type \in {Val("code"), Val("container"), Absent}

\* C6: step7_invoke_agent calls invoke_agent_runtime only for a request whose
\* prompt is non-blank and at most 10000 characters long, whose
\* runtime_session_id is at least 33 characters long and whose deployment_type
\* is "code" or "container" (or left out, which means "code"); every other
\* request is rejected with no call made.
C6_InvokeOnlyValidRequests ==
    inv_req # [k |-> "none"] =>
        /\ inv_calls # <<>> => BodyIsValid(inv_req)
        /\ ~BodyIsValid(inv_req) => inv_calls = <<>> /\ inv_resp.status = 422

\* A prompt of exactly 10000 characters with a session id of exactly 33 was
\* passed on to the service.
C6_Witness ==
    /\ inv_calls # <<>>
    /\ TextLen(inv_req.prompt.v) = 10000
    /\ TextLen(inv_req.runtime_session_id.v) = 33
    /\ inv_req.deployment_type = Val("container")

EffectiveType(body) == IF body.deployment_type = Absent THEN "code" ELSE body.deployment_type.v

\* C10: the payload passed to invoke_agent_runtime is {"input": {"prompt": p}}
\* when deployment_type is "container" and {"prompt": p} otherwise, p being the
\* request's prompt unchanged; a successful response echoes the same prompt
\* and deployment_type.
C10_PayloadByDeploymentType ==
    inv_calls # <<>> =>
        /\ JsonLoads(inv_calls[1].payload) =
              IF EffectiveType(inv_req) = "container"
              THEN [input |-> [prompt |-> inv_req.prompt.v]]
              ELSE [prompt |-> inv_req.prompt.v]
        /\ inv_resp.status = 200 =>
              /\ inv_resp.body.prompt = inv_req.prompt.v
              /\ inv_resp.body.deployment_type = EffectiveType(inv_req)

\* A container request whose prompt holds a quote, a backslash, a newline and
\* a non-ASCII letter was answered with success.
C10_Witness ==
    /\ inv_calls # <<>>
    /\ inv_resp.status = 200
    /\ inv_req.deployment_type = Val("container")
    /\ \E i \in 1..Len(inv_req.prompt.v) : inv_req.prompt.v[i].c = "QUOTE"
    /\ Len(inv_calls[1].payload) = 9

\* ---- the code interpreter's reset ----
\* C7: after reset_agentcore_sessions returned success, every session started
\* earlier by execute_agentcore_code, execute_file_management_demo or
\* execute_shell_command_demo has been stopped.
C7_ResetStopsEveryStartedSession ==
    (ci_last.op = "reset_agentcore_sessions" /\ ci_last.success) => ci_started \subseteq ci_stopped

\* ---- login ----
\* C8: with login enabled, get_current_user returns a user only for a token
\* issued by a post_login whose username and password both equalled the
\* configured credentials; for every other token, and for no token, each page
\* route answers 303 to /login and renders no page.
C8_UserOnlyForIssuedTokenElseRedirect ==
    login_enabled =>
        /\ \A c \in Cookies : get_current_user(c) # NoUser => c \in auth_issued
        /\ (auth_last.op = "get_page" /\ ~auth_last.issued) =>
              auth_last.resp = Redirect("/login")

\* A page was asked for with a token nobody was given, while another token
\* was in use, and the answer was the redirect.
C8_Witness ==
    /\ login_enabled
    /\ auth_issued = {"t1"}
    /\ auth_last.op = "get_page" /\ auth_last.session_token = "t2"
    /\ auth_last.route = "/agentcore-memory"
    /\ auth_last.resp.status = 303

\* ---- the SSE streams ----
Where(events, P(_)) == {i \in 1..Len(events) : P(events[i])}

IsDone(ev) == ev.done

IsResult(ev) == ev.event = "result"

\* C9: whatever the SDK calls of a generator do, a stream of the runtime router
\* holds exactly one event with done = true and a stream of the memory API
\* holds exactly one "result" event, and that event is the last of the stream.
C9_StreamEndsWithOneCompletionEvent ==
    LET events == sse_last.events IN
    /\ sse_last.gen \in RuntimeGenerators =>
          /\ Cardinality(Where(events, IsDone)) = 1
          /\ IsDone(events[Len(events)])
    /\ sse_last.gen \in MemoryGenerators =>
          /\ Cardinality(Where(events, IsResult)) = 1
          /\ IsResult(events[Len(events)])

\* A combined demo whose last SDK call raised after the chunks of the model
\* were streamed, and a deployment whose create_agent_runtime raised after
\* the upload: both are reached, here the first.
C9_Witness ==
    /\ sse_last.gen = "demo_combined_stream"
    /\ sse_last.raised
    /\ Len(sse_last.events) > 20
    /\ IsResult(sse_last.events[Len(sse_last.events)])

\* ---- the error pattern of the JSON handlers ----
\* The answers of the code interpreter's endpoints depend on what the SDK
\* calls do and on nothing else: all of them, for every outcome.
CiHandlers == {"execute_agentcore_code", "execute_file_management_demo", "execute_shell_command_demo"}

CiAnswers ==
    {CiAnswer(op, outcome) : op \in CiHandlers, outcome \in CiOutcomes}
    \cup {ResetAnswer(failing) : failing \in SUBSET CiSessionIds}

\* the last answer of a memory or runtime handler, and the code interpreter's
Answers ==
    {[op |-> err_last.op, raised |-> err_last.raised, resp |-> err_last.resp]}
    \cup {[op |-> a.op, raised |-> a.raised, resp |-> a.resp] : a \in CiAnswers}

CarriesOneOf(text, calls) == \E c \in calls : Carries(text, SdkError(c))

\* C1 as stated: when an SDK call made by a handler raised, the handler's
\* result is a failure that carries the exception message; no handler
\* returns success after one of its SDK calls raised.
C1_FailureCarriesMessageWheneverACallRaised ==
    \A a \in Answers :
        a.raised # {} => ~a.resp.success /\ CarriesOneOf(a.resp.text, a.raised)

\* the calls whose exception a handler absorbs
AbsorbedBy(op) ==
    CASE op \in {"demo_stm_step1", "demo_stm_step2", "demo_ltm_step1", "demo_ltm_step2"} ->
            {"converse"}
      [] op = "demo_combined" -> {"converse", "stm get_last_k_turns"}
      [] op = "reset_agentcore_sessions" -> {"stop_code_interpreter_session"}
      [] op = "step8_cleanup_runtime" -> {"s3_client.delete_object"}
      [] OTHER -> {}

\* C1 amended: a handler answers with a failure that carries the exception
\* message when one of its SDK calls raised, unless the call is one of those
\* it absorbs (converse in call_llm, get_last_k_turns in demo_combined,
\* stop_code_interpreter_session in the reset, delete_object in step 8): when
\* only absorbed calls raised the handler answers success.  A failure of
\* init_clients leaves the handler as an HTTP 500 without the message.  The
\* failure is HTTP 500 except for the memory handlers, which answer HTTP 200.
C1_FailureCarriesMessageUnlessAbsorbed ==
    \A a \in Answers :
        LET hard == a.raised \ AbsorbedBy(a.op) IN
        /\ (hard # {} /\ hard # {"init_clients"}) =>
              ~a.resp.success /\ CarriesOneOf(a.resp.text, hard)
        /\ hard = {"init_clients"} =>
              ~a.resp.success /\ a.resp.status = 500 /\ ~CarriesOneOf(a.resp.text, hard)
        /\ (hard = {} /\ a.raised # {}) => a.resp.success
        /\ ~a.resp.success =>
              a.resp.status = IF a.op \in CiHandlers \cup {"step6_check_status", "step8_cleanup_runtime"}
                              THEN 500 ELSE 200

\* The combined demo answered with a failure carrying the message of
\* add_turns although converse and get_last_k_turns had raised before it.
C1_Witness ==
    /\ err_last.op = "demo_combined"
    /\ err_last.raised = {"converse", "stm get_last_k_turns", "ltm add_turns"}
    /\ ~err_last.resp.success
    /\ Carries(err_last.resp.text, SdkError("ltm add_turns"))

\* ---- the log buffers ----
\* socket w has connected, and entry e was in the buffer when it did
ConnectedWith(w, e) ==
    /\ ws_last.op = "connect" /\ ws_last.w = w
    /\ \E i \in 1..Len(ws_last.buffered) : ws_last.buffered[i] = e

\* data e goes out on socket w
SentOn(w, e) == ws_last.op = "send_json" /\ ws_last.data = e /\ w \in ws_last.to

LogEntries == {LogEntry(n, levelname) : n \in 1..MaxLogEntries, levelname \in Levels}

\* C11: every entry that is in the WebSocketLogHandler buffer when a client
\* connects through ConnectionManager.connect is eventually sent to that
\* client (or the client has gone before).
C11_BufferedEntriesAreSentAfterConnect ==
    \A w \in Sockets, e \in LogEntries :
        ConnectedWith(w, e) ~> (SentOn(w, e) \/ w \in ws_closed)

\* ---- the prerequisite checker ----
HasSuggestions == \E i \in 1..Len(chk_printed) : "suggestion" \in DOMAIN chk_printed[i]

HasSummary == \E i \in 1..Len(chk_printed) : "summary" \in DOMAIN chk_printed[i]

\* C12: main() returns 0 when every check in its results table passed, and
\* returns 1, after printing the summary and the repair suggestions, when at
\* least one check failed; it ends in no other way.
C12_MainReturnsZeroOrOne ==
    chk_pc = "done" =>
        /\ chk_end.k = "returned"
        /\ Len(chk_results) = Len(ResultKeys)
        /\ AllPassed(chk_results) => chk_end.code = 0
        /\ ~AllPassed(chk_results) => chk_end.code = 1 /\ HasSummary /\ HasSuggestions

\* ---- the diagnosis script ----
StepAt(name) ==
    IF \E i \in 1..Len(diag_trace) : diag_trace[i].step = name
    THEN CHOOSE i \in 1..Len(diag_trace) : diag_trace[i].step = name
    ELSE 0

StepOk(name) == StepAt(name) # 0 /\ diag_trace[StepAt(name)].ok

\* C13: diagnose_runtime attempts invoke_agent_runtime only after
\* get_agent_runtime returned READY and the ARN has the prefix; it returns
\* True (exit code 0) exactly when the invocation succeeded and its body
\* parsed as JSON, and returns False (exit code 1) in every other case.
C13_TrueExactlyWhenInvokedAndParsed ==
    (diag_pc = "done" /\ diag_end.k # "usage") =>
        /\ StepAt("invoke_agent_runtime") # 0 =>
              /\ StepAt("get_agent_runtime") # 0
              /\ StepAt("get_agent_runtime") < StepAt("invoke_agent_runtime")
              /\ diag_trace[StepAt("get_agent_runtime")].status = "READY"
              /\ StepOk("arn format")
              /\ StepAt("arn format") < StepAt("invoke_agent_runtime")
        /\ diag_end.k = "returned"
        /\ diag_end.value = (StepOk("invoke_agent_runtime") /\ StepOk("json.loads"))
        /\ diag_end.exit = IF diag_end.value THEN 0 ELSE 1

\* ---- the code-interpreter handlers on the event loop ----
\* C18: the steps of the code-interpreter handlers never interleave: while a
\* reset iterates, no other handler is in flight and agentcore_sessions is
\* what it was when the iteration began; a reset never ends by the error of
\* a dictionary changed during iteration, and every session it drops is one
\* it attempted to stop.
C18_HandlersDoNotInterleave ==
    /\ ~(loop_exec.pc > 0 /\ loop_reset.pc = "iterating")
    /\ loop_reset.pc = "iterating" => agentcore_sessions = loop_reset.at_start
    /\ loop_last.k = "reset" =>
          /\ loop_last.error # "dictionary changed size during iteration"
          /\ loop_last.success
          /\ loop_last.dropped \subseteq loop_last.attempted
          /\ loop_last.dropped = loop_last.at_start

\* A reset dropped two stored sessions, and another request has started a
\* session since.
C18_Witness ==
    /\ loop_last.k = "reset" /\ Cardinality(loop_last.dropped) = 2
    /\ ci_started \ loop_last.dropped # {}
    /\ loop_exec.pc > 1

====
